---- MODULE Spec2Model ----
(***************************************************************************)
(* State-machine model of the CacheMgr cache library (LRU, LRU-K, LFU,     *)
(* LFU-Avg, ARC).  Every cache object is one record-valued variable; every *)
(* public operation is one action computed by an operator translated from  *)
(* the C++ method of the same name.  Each policy has its own specification *)
(* (SpecLRU, SpecLRUK, SpecLFU, SpecLFUAvg, SpecARC) in which the caches   *)
(* of the other policies stay as constructed.                              *)
(***************************************************************************)
EXTENDS Integers, Sequences, FiniteSets, TLC

VARIABLES lru, lruTouch, lruLast,
          lruk, lrukAcc, lrukLog, lrukLast,
          lfu, lfuReach, lfuLast,
          lfuAvg, lfuAvgLast,
          arc, arcLast,
          concKind, thr, mutex, replica, conc0, concLog, concCalls, concFault,
          hashKind, lruHash, lfuHash, shards, hashLast

vars ==
  <<lru, lruTouch, lruLast, lruk, lrukAcc, lrukLog, lrukLast,
    lfu, lfuReach, lfuLast, lfuAvg, lfuAvgLast, arc, arcLast,
    concKind, thr, mutex, replica, conc0, concLog, concCalls, concFault,
    hashKind, lruHash, lfuHash, shards, hashLast>>

(***************************************************************************)
(* Bounds of the exploration.                                              *)
(***************************************************************************)
NumKeys == 3
NumVals == 2
MaxCapacity == 2
LrukNumKeys == 2
MaxHistCapacity == 4
MaxK == 2
NumThreads == 2
ConcNumKeys == 2
MaxConcOps == 3
ConcMaxCapacity == 1
ConcMaxHistCapacity == 2
MaxHashCapacity == 2
MaxSlices == 2
HashMaxFreq == 2
HashMaxTotalFreq == 4
MaxAccess == 4
K1MaxAccess == 3
MaxLog == 4
MaxFreq == 3
MaxAvgBound == 2
MaxTotalFreq == 8
LongNumKeys == 2
LongMaxCapacity == 1
LongMaxAvgFreq == 252
LongMaxTotalFreq == 255
ArcMaxCapacity == 1
MaxThreshold == 3
ConcMaxThreshold == 2
MaxCount == 3
WideCapacity == 2
WideMaxCount == 2
WideMaxGhosts == 2

Keys == 1..NumKeys
Vals == 1..NumVals
LrukKeys == 1..LrukNumKeys
\* Key() and Value{} of the C++ code: value-initialised key and value.
DefaultKey == 0
DefaultVal == 0

(***************************************************************************)
(* std::unordered_map as a function with a finite domain.                  *)
(***************************************************************************)
EmptyMap == [x \in {} |-> 0]

MapPut(m, k, v) ==
  [x \in (DOMAIN m) \cup {k} |-> IF x = k THEN v ELSE m[x]]

MapErase(m, k) ==
  [x \in (DOMAIN m) \ {k} |-> m[x]]

\* Unlinking a node from a doubly-linked list kept as a sequence of keys.
Unlink(s, k) ==
  SelectSeq(s, LAMBDA x : x # k)

\* Position of the first occurrence of k in s (0 when absent).
IndexOf(s, k) ==
  IF \E i \in 1..Len(s) : s[i] = k
  THEN CHOOSE i \in 1..Len(s) : s[i] = k /\ \A j \in 1..(i - 1) : s[j] # k
  ELSE 0

\* First element of s that lies in set S (DefaultKey when there is none).
FirstIn(s, S) ==
  IF \E i \in 1..Len(s) : s[i] \in S
  THEN s[CHOOSE i \in 1..Len(s) : s[i] \in S /\ \A j \in 1..(i - 1) : s[j] \notin S]
  ELSE DefaultKey

(***************************************************************************)
(* LRUCache (src/src/LRU/CacheLRU.h).                                      *)
(* capacity : capacity_                                                    *)
(* nodeMap  : nodeMap_, key -> value of the node                           *)
(* list     : keys of the nodes linked between dummyHead_ and dummyTail_,  *)
(*            head side first (least recent first)                         *)
(***************************************************************************)
LRUCache_new(capacity) ==
  [capacity |-> capacity, nodeMap |-> EmptyMap, list |-> <<>>]

\* removeNode: unlink the node (it is always linked when this is called).
LRU_removeNode(c, k) ==
  [c EXCEPT !.list = Unlink(c.list, k)]

\* insertNode: link the node just before dummyTail_.
LRU_insertNode(c, k) ==
  [c EXCEPT !.list = Append(c.list, k)]

LRU_moveToMostRecent(c, k) ==
  LRU_insertNode(LRU_removeNode(c, k), k)

LRU_updateExistingNode(c, k, v) ==
  LRU_moveToMostRecent([c EXCEPT !.nodeMap = MapPut(c.nodeMap, k, v)], k)

\* A faulty evictLeastRecent that takes dummyTail_->prev_ (the most recent).
LRU_evictMostRecent(c) ==
  IF c.list = <<>>
  THEN [c EXCEPT !.nodeMap = MapErase(c.nodeMap, DefaultKey)]
  ELSE [c EXCEPT !.list = SubSeq(c.list, 1, Len(c.list) - 1),
                 !.nodeMap = MapErase(c.nodeMap, c.list[Len(c.list)])]

\* evictLeastRecent: dummyHead_->next_ is unlinked and its key erased; on an
\* empty list that node is dummyTail_, whose key is Key().
LRU_evictLeastRecent(c) ==
  IF c.list = <<>>
  THEN [c EXCEPT !.nodeMap = MapErase(c.nodeMap, DefaultKey)]
  ELSE [c EXCEPT !.list = Tail(c.list),
                 !.nodeMap = MapErase(c.nodeMap, Head(c.list))]

LRU_addNode(c, k, v) ==
  LET e == IF Cardinality(DOMAIN c.nodeMap) >= c.capacity
           THEN LRU_evictLeastRecent(c) ELSE c
  IN [e EXCEPT !.list = Append(e.list, k),
               !.nodeMap = MapPut(e.nodeMap, k, v)]

LRUCache_put(c, k, v) ==
  IF 0 >= c.capacity THEN c
  ELSE IF k \in DOMAIN c.nodeMap THEN LRU_updateExistingNode(c, k, v)
  ELSE LRU_addNode(c, k, v)

\* get(key, val): val is the caller's variable, left untouched on a miss.
LRUCache_get(c, k, out) ==
  IF k \in DOMAIN c.nodeMap
  THEN [cache |-> LRU_moveToMostRecent(c, k), hit |-> TRUE, val |-> c.nodeMap[k]]
  ELSE [cache |-> c, hit |-> FALSE, val |-> out]

\* get(key): Value val{}; get(key, val); return val.
LRUCache_get1(c, k) ==
  LRUCache_get(c, k, DefaultVal)

\* A faulty remove that unlinks the node but leaves it in the map.
LRUCache_removeUnlinkOnly(c, k) ==
  IF k \in DOMAIN c.nodeMap
  THEN LRU_removeNode(c, k)
  ELSE c

LRUCache_remove(c, k) ==
  IF k \in DOMAIN c.nodeMap
  THEN [LRU_removeNode(c, k) EXCEPT !.nodeMap = MapErase(c.nodeMap, k)]
  ELSE c

(***************************************************************************)
(* LRUKCache (src/src/LRU/CacheLRUK.h).                                    *)
(* main       : the LRUCache base-class object                             *)
(* histList   : histList_, an LRUCache whose values are access counts      *)
(* histValMap : histValMap_                                                *)
(* k          : k_                                                         *)
(***************************************************************************)
LRUKCache_new(capacity, histCapacity, k) ==
  [main |-> LRUCache_new(capacity),
   histList |-> LRUCache_new(histCapacity),
   histValMap |-> EmptyMap,
   k |-> k]

\* A faulty put that admits the key one access late.
LRUKCache_putLate(c, key, val) ==
  LET g == LRUCache_get(c.main, key, DefaultVal) IN
  IF g.hit
  THEN [c EXCEPT !.main = LRUCache_put(g.cache, key, val)]
  ELSE
    LET h == LRUCache_get1(c.histList, key)
        histCount == h.val + 1
        hist1 == LRUCache_put(h.cache, key, histCount)
        hv1 == MapPut(c.histValMap, key, val)
    IN IF histCount > c.k
       THEN [c EXCEPT !.histList = LRUCache_remove(hist1, key),
                      !.histValMap = MapErase(hv1, key),
                      !.main = LRUCache_put(g.cache, key, val)]
       ELSE [c EXCEPT !.histList = hist1, !.histValMap = hv1, !.main = g.cache]

\* A faulty put that admits the key one access early.
LRUKCache_putEarly(c, key, val) ==
  LET g == LRUCache_get(c.main, key, DefaultVal) IN
  IF g.hit
  THEN [c EXCEPT !.main = LRUCache_put(g.cache, key, val)]
  ELSE
    LET h == LRUCache_get1(c.histList, key)
        histCount == h.val + 1
        hist1 == LRUCache_put(h.cache, key, histCount)
        hv1 == MapPut(c.histValMap, key, val)
    IN IF histCount + 1 >= c.k
       THEN [c EXCEPT !.histList = LRUCache_remove(hist1, key),
                      !.histValMap = MapErase(hv1, key),
                      !.main = LRUCache_put(g.cache, key, val)]
       ELSE [c EXCEPT !.histList = hist1, !.histValMap = hv1, !.main = g.cache]

LRUKCache_put(c, key, val) ==
  LET g == LRUCache_get(c.main, key, DefaultVal) IN
  IF g.hit
  THEN [c EXCEPT !.main = LRUCache_put(g.cache, key, val)]
  ELSE
    LET h == LRUCache_get1(c.histList, key)
        histCount == h.val + 1
        hist1 == LRUCache_put(h.cache, key, histCount)
        hv1 == MapPut(c.histValMap, key, val)
    IN IF histCount >= c.k
       THEN [c EXCEPT !.histList = LRUCache_remove(hist1, key),
                      !.histValMap = MapErase(hv1, key),
                      !.main = LRUCache_put(g.cache, key, val)]
       ELSE [c EXCEPT !.histList = hist1, !.histValMap = hv1, !.main = g.cache]

\* A faulty get that counts the access but never promotes from history.
LRUKCache_getNoPromote(c, key, out) ==
  LET g == LRUCache_get(c.main, key, out)
      h == LRUCache_get1(c.histList, key)
      hist1 == LRUCache_put(h.cache, key, h.val + 1)
  IN [cache |-> [c EXCEPT !.main = g.cache, !.histList = hist1],
      hit |-> g.hit, val |-> g.val]

LRUKCache_get(c, key, out) ==
  LET g == LRUCache_get(c.main, key, out)
      h == LRUCache_get1(c.histList, key)
      histCount == h.val + 1
      hist1 == LRUCache_put(h.cache, key, histCount)
  IN IF g.hit
     THEN [cache |-> [c EXCEPT !.main = g.cache, !.histList = hist1],
           hit |-> TRUE, val |-> g.val]
     ELSE IF histCount >= c.k /\ key \in DOMAIN c.histValMap
     THEN [cache |-> [c EXCEPT !.histList = LRUCache_remove(hist1, key),
                               !.histValMap = MapErase(c.histValMap, key),
                               !.main = LRUCache_put(g.cache, key, c.histValMap[key])],
           hit |-> TRUE, val |-> c.histValMap[key]]
     ELSE [cache |-> [c EXCEPT !.main = g.cache, !.histList = hist1],
           hit |-> FALSE, val |-> g.val]

\* get(key): Value val{}; get(key, val); return val.
LRUKCache_get1(c, key) ==
  LRUKCache_get(c, key, DefaultVal)

(***************************************************************************)
(* LFUCache (src/src/LFU/CacheLFU.h).                                      *)
(* capacity    : capacity_                                                 *)
(* minFreq     : minFreq_                                                  *)
(* cacheMap    : cacheMap_, key -> [freq, val] of the node                 *)
(* freqListMap : freqListMap_, freq -> keys of the FreqList, head first    *)
(***************************************************************************)
LFUCache_new(capacity) ==
  [capacity |-> capacity, minFreq |-> 0,
   cacheMap |-> EmptyMap, freqListMap |-> EmptyMap]

\* removeNodeFromFreqList(node) for the node of key k, whose freq is f.
LFU_removeNodeFromFreqList(c, k) ==
  LET f == c.cacheMap[k].freq IN
  IF f \notin DOMAIN c.freqListMap THEN c
  ELSE
    LET l == Unlink(c.freqListMap[f], k) IN
    IF l = <<>>
    THEN LET m == MapErase(c.freqListMap, f) IN
         [c EXCEPT !.freqListMap = m,
                   !.minFreq = IF c.minFreq = f
                               THEN (IF DOMAIN m = {} THEN 0 ELSE c.minFreq + 1)
                               ELSE c.minFreq]
    ELSE [c EXCEPT !.freqListMap = MapPut(c.freqListMap, f, l)]

\* addNodeToFreqList(node): FreqList::addNode links at the tail.
LFU_addNodeToFreqList(c, k) ==
  LET f == c.cacheMap[k].freq
      l == IF f \in DOMAIN c.freqListMap THEN c.freqListMap[f] ELSE <<>>
  IN [c EXCEPT !.freqListMap = MapPut(c.freqListMap, f, Append(l, k))]

\* The eviction branch of put: getFirstNode of the list at minFreq_ (a list
\* held by freqListMap_ is never empty), unlink it, erase its key.
LFU_evict(c) ==
  LET l == c.freqListMap[c.minFreq] IN
  IF l = <<>> THEN c
  ELSE LET r == LFU_removeNodeFromFreqList(c, Head(l))
       IN [r EXCEPT !.cacheMap = MapErase(r.cacheMap, Head(l))]

LFUCache_put(c, k, v) ==
  IF 0 = c.capacity THEN c
  ELSE IF k \in DOMAIN c.cacheMap
  THEN [c EXCEPT !.cacheMap[k].val = v]
  ELSE
    LET e == IF /\ Cardinality(DOMAIN c.cacheMap) >= c.capacity
                /\ c.minFreq > 0
                /\ c.minFreq \in DOMAIN c.freqListMap
             THEN LFU_evict(c) ELSE c
        n == [e EXCEPT !.cacheMap = MapPut(e.cacheMap, k, [freq |-> 1, val |-> v]),
                       !.minFreq = 1]
    IN LFU_addNodeToFreqList(n, k)

LFUCache_get(c, k, out) ==
  IF k \in DOMAIN c.cacheMap
  THEN
    LET r == LFU_removeNodeFromFreqList(c, k)
        i == [r EXCEPT !.cacheMap[k].freq = @ + 1]
        m == IF \/ i.minFreq \notin DOMAIN i.freqListMap
                \/ i.freqListMap[i.minFreq] = <<>>
             THEN [i EXCEPT !.minFreq = @ + 1] ELSE i
    IN [cache |-> LFU_addNodeToFreqList(m, k), hit |-> TRUE, val |-> c.cacheMap[k].val]
  ELSE [cache |-> c, hit |-> FALSE, val |-> out]

\* get(key): Value val; get(key, val); return val.  The local is not
\* initialised: u is the indeterminate value it starts with.
LFUCache_get1(c, k, u) ==
  LFUCache_get(c, k, u)

LFUCache_purge(c) ==
  [c EXCEPT !.cacheMap = EmptyMap, !.freqListMap = EmptyMap, !.minFreq = 0]

(***************************************************************************)
(* LFUAvgCache (src/src/LFU/CacheLFUAvg.h).                                *)
(* As LFUCache, plus maxAvgFreq_, currentAvgFreq_, currentTotalFreq_.      *)
(* crashed : the process has faulted.  kickOut evaluates                   *)
(*   freqListMap_[minFreq_]->getFirstNode(); when freqListMap_ has no      *)
(*   entry for minFreq_, operator[] inserts a null FreqList* and the call  *)
(*   reads dummyHead_ through that null pointer.  Every build faults there *)
(*   and no operation runs afterwards.                                     *)
(* The iteration order of cacheMap_ (an unordered_map) in                  *)
(* handleOverMaxAverageNum is unspecified: the operations take it as the   *)
(* parameter ord, a sequence listing every key once.                       *)
(***************************************************************************)
INT8_MAX == 127

IntMin(a, b) ==
  IF a < b THEN a ELSE b

LFUAvgCache_new(capacity, maxAvgFreq) ==
  [capacity |-> capacity, minFreq |-> INT8_MAX, maxAvgFreq |-> maxAvgFreq,
   currentAvgFreq |-> 0, currentTotalFreq |-> 0,
   cacheMap |-> EmptyMap, freqListMap |-> EmptyMap, crashed |-> FALSE]

LFUAvg_removeNodeFromFreqList(c, k) ==
  LFU_removeNodeFromFreqList(c, k)

LFUAvg_addNodeToFreqList(c, k) ==
  LFU_addNodeToFreqList(c, k)

LFUAvg_updateMinFreq(c) ==
  LET nonEmpty == {f \in DOMAIN c.freqListMap : c.freqListMap[f] # <<>>}
      m == IF \E f \in nonEmpty : f < INT8_MAX
           THEN CHOOSE f \in nonEmpty : \A g \in nonEmpty : f <= g
           ELSE INT8_MAX
  IN [c EXCEPT !.minFreq = IF m = INT8_MAX THEN 1 ELSE m]

\* The loop of handleOverMaxAverageNum from position i of the iteration order.
RECURSIVE LFUAvg_ageNodes(_, _, _)
LFUAvg_ageNodes(c, ord, i) ==
  IF i > Len(ord) THEN c
  ELSE IF ord[i] \notin DOMAIN c.cacheMap THEN LFUAvg_ageNodes(c, ord, i + 1)
  ELSE
    LET k == ord[i]
        r == LFUAvg_removeNodeFromFreqList(c, k)
        f == r.cacheMap[k].freq - (c.maxAvgFreq \div 2)
        d == [r EXCEPT !.cacheMap[k].freq = IF f <= 0 THEN 1 ELSE f]
    IN LFUAvg_ageNodes(LFUAvg_addNodeToFreqList(d, k), ord, i + 1)

LFUAvg_handleOverMaxAverageNum(c, ord) ==
  IF DOMAIN c.cacheMap = {} THEN c
  ELSE LFUAvg_updateMinFreq(LFUAvg_ageNodes(c, ord, 1))

LFUAvg_addFreqNum(c, ord) ==
  LET t == c.currentTotalFreq + 1
      n == Cardinality(DOMAIN c.cacheMap)
      a == IF n = 0 THEN 0 ELSE t \div n
      u == [c EXCEPT !.currentTotalFreq = t, !.currentAvgFreq = a]
  IN IF a > c.maxAvgFreq THEN LFUAvg_handleOverMaxAverageNum(u, ord) ELSE u

LFUAvg_decreaseFreqNum(c, num) ==
  LET t == IF c.currentTotalFreq - num < 0 THEN 0 ELSE c.currentTotalFreq - num
      n == Cardinality(DOMAIN c.cacheMap)
  IN [c EXCEPT !.currentTotalFreq = t,
               !.currentAvgFreq = IF n = 0 THEN 0 ELSE t \div n]

LFUAvg_kickOut(c) ==
  IF c.minFreq \notin DOMAIN c.freqListMap
  THEN [c EXCEPT !.crashed = TRUE]
  ELSE
    LET l == c.freqListMap[c.minFreq] IN
    IF l = <<>> THEN c
    ELSE LET k == Head(l)
             r == LFUAvg_removeNodeFromFreqList(c, k)
             e == [r EXCEPT !.cacheMap = MapErase(r.cacheMap, k)]
         IN LFUAvg_decreaseFreqNum(e, c.cacheMap[k].freq)

LFUAvg_putInternal(c, k, v, ord) ==
  LET e == IF Cardinality(DOMAIN c.cacheMap) >= c.capacity
           THEN LFUAvg_kickOut(c) ELSE c
  IN IF e.crashed THEN e
     ELSE
       LET n == [e EXCEPT !.cacheMap = MapPut(e.cacheMap, k, [freq |-> 1, val |-> v])]
           a == LFUAvg_addFreqNum(LFUAvg_addNodeToFreqList(n, k), ord)
       IN [a EXCEPT !.minFreq = IntMin(a.minFreq, 1)]

\* getInternal(node, val) for the node of key k; the value is read first.
\* freqListMap_[node->freq - 1]->isEmpty() goes through operator[] as kickOut
\* does.
LFUAvg_getInternal(c, k, ord) ==
  LET r == LFUAvg_removeNodeFromFreqList(c, k)
      i == [r EXCEPT !.cacheMap[k].freq = @ + 1]
      a == LFUAvg_addNodeToFreqList(i, k)
      f == a.cacheMap[k].freq
  IN IF f - 1 = a.minFreq /\ f - 1 \notin DOMAIN a.freqListMap
     THEN [a EXCEPT !.crashed = TRUE]
     ELSE LFUAvg_addFreqNum(
            IF f - 1 = a.minFreq /\ a.freqListMap[f - 1] = <<>>
            THEN [a EXCEPT !.minFreq = @ + 1] ELSE a, ord)

LFUAvgCache_put(c, k, v, ord) ==
  IF c.crashed \/ 0 = c.capacity THEN c
  ELSE IF k \in DOMAIN c.cacheMap
  THEN LFUAvg_getInternal([c EXCEPT !.cacheMap[k].val = v], k, ord)
  ELSE LFUAvg_putInternal(c, k, v, ord)

LFUAvgCache_get(c, k, out, ord) ==
  IF c.crashed THEN [cache |-> c, hit |-> FALSE, val |-> out]
  ELSE IF k \in DOMAIN c.cacheMap
  THEN [cache |-> LFUAvg_getInternal(c, k, ord), hit |-> TRUE,
        val |-> c.cacheMap[k].val]
  ELSE [cache |-> c, hit |-> FALSE, val |-> out]

\* get(key): Value val; get(key, val); return val.  The local is not
\* initialised: u is the indeterminate value it starts with.
LFUAvgCache_get1(c, k, u, ord) ==
  LFUAvgCache_get(c, k, u, ord)

LFUAvgCache_purge(c) ==
  IF c.crashed THEN c
  ELSE [c EXCEPT !.cacheMap = EmptyMap, !.freqListMap = EmptyMap,
                 !.minFreq = INT8_MAX, !.currentAvgFreq = 0,
                 !.currentTotalFreq = 0]

(***************************************************************************)
(* ARCLRUCache, the recency half of ARC (src/src/ARC/CacheARCLRUPart.h).   *)
(* mainCache  : mainCache_, key -> [val, count] of the node                *)
(* mainList   : keys between mainHead_ and mainTail_, head side first      *)
(*              (most recent first)                                        *)
(* ghostCache : key set of ghostCache_                                     *)
(* ghostList  : keys between ghostHead_ and ghostTail_, head side first    *)
(*              (newest ghost first)                                       *)
(***************************************************************************)
RemoveFirst(s, k) ==
  LET i == IndexOf(s, k) IN
  IF i = 0 THEN s ELSE SubSeq(s, 1, i - 1) \o SubSeq(s, i + 1, Len(s))

Reverse(s) ==
  [i \in 1..Len(s) |-> s[Len(s) + 1 - i]]

RemoveLast(s, k) ==
  Reverse(RemoveFirst(Reverse(s), k))

ARCLRUCache_new(capacity) ==
  [capacity |-> capacity, ghostCapacity |-> capacity,
   mainCache |-> EmptyMap, mainList |-> <<>>,
   ghostCache |-> {}, ghostList |-> <<>>]

ARCLRU_addToFront(c, k) ==
  [c EXCEPT !.mainList = <<k>> \o c.mainList]

ARCLRU_moveToFront(c, k) ==
  ARCLRU_addToFront([c EXCEPT !.mainList = Unlink(c.mainList, k)], k)

\* removeOldestGhostNode: ghostTail_->prev_ is unlinked and its key erased.
ARCLRU_removeOldestGhostNode(c) ==
  IF c.ghostList = <<>> THEN c
  ELSE [c EXCEPT !.ghostList = SubSeq(c.ghostList, 1, Len(c.ghostList) - 1),
                 !.ghostCache = c.ghostCache \ {c.ghostList[Len(c.ghostList)]}]

\* addToGhostCache: the node is linked right after ghostHead_.
ARCLRU_addToGhostCache(c, k) ==
  [c EXCEPT !.ghostCache = c.ghostCache \cup {k},
            !.ghostList = <<k>> \o c.ghostList]

ARCLRU_evictLeastRecent(c) ==
  IF c.mainList = <<>> THEN c
  ELSE
    LET k == c.mainList[Len(c.mainList)]
        r == [c EXCEPT !.mainList = SubSeq(c.mainList, 1, Len(c.mainList) - 1)]
        g == IF Cardinality(r.ghostCache) >= r.ghostCapacity
             THEN ARCLRU_removeOldestGhostNode(r) ELSE r
        a == ARCLRU_addToGhostCache(g, k)
    IN [a EXCEPT !.mainCache = MapErase(a.mainCache, k)]

\* A faulty updateExistingNode that counts the overwrite as an access.
ARCLRU_updateExistingNodeCounting(c, k, v) ==
  ARCLRU_moveToFront([c EXCEPT !.mainCache[k].val = v,
                               !.mainCache[k].count = @ + 1], k)

ARCLRU_updateExistingNode(c, k, v) ==
  ARCLRU_moveToFront([c EXCEPT !.mainCache[k].val = v], k)

ARCLRU_addNewNode(c, k, v) ==
  LET e == IF Cardinality(DOMAIN c.mainCache) >= c.capacity
           THEN ARCLRU_evictLeastRecent(c) ELSE c
  IN ARCLRU_addToFront(
       [e EXCEPT !.mainCache = MapPut(e.mainCache, k, [val |-> v, count |-> 1])], k)

\* updateNodeAccess: moveToFront, incrementAccessCount.
ARCLRU_updateNodeAccess(c, k) ==
  [ARCLRU_moveToFront(c, k) EXCEPT !.mainCache[k].count = @ + 1]

\* get(key, value, shouldTransform); T is transformThreshold_.
ARCLRUCache_get(c, k, out, T) ==
  IF k \in DOMAIN c.mainCache
  THEN LET u == ARCLRU_updateNodeAccess(c, k)
       IN [cache |-> u, hit |-> TRUE, val |-> u.mainCache[k].val,
           shouldTransform |-> u.mainCache[k].count >= T]
  ELSE [cache |-> c, hit |-> FALSE, val |-> out, shouldTransform |-> FALSE]

\* A faulty put that skips the capacity test.
ARCLRUCache_putAtZero(c, k, v) ==
  IF k \in DOMAIN c.mainCache THEN ARCLRU_updateExistingNode(c, k, v)
  ELSE ARCLRU_addNewNode(c, k, v)

ARCLRUCache_put(c, k, v) ==
  IF 0 = c.capacity THEN c
  ELSE IF k \in DOMAIN c.mainCache THEN ARCLRU_updateExistingNode(c, k, v)
  ELSE ARCLRU_addNewNode(c, k, v)

\* checkGhost: the node ghostCache_ maps the key to is unlinked, the entry
\* erased.
ARCLRUCache_checkGhost(c, k) ==
  IF k \in c.ghostCache
  THEN [cache |-> [c EXCEPT !.ghostList = RemoveFirst(c.ghostList, k),
                            !.ghostCache = c.ghostCache \ {k}],
        found |-> TRUE]
  ELSE [cache |-> c, found |-> FALSE]

ARCLRUCache_increaseCapacity(c) ==
  [c EXCEPT !.capacity = @ + 1, !.ghostCapacity = @ + 1]

ARCLRUCache_decreaseCapacity(c) ==
  IF 0 >= c.capacity THEN [cache |-> c, ok |-> FALSE]
  ELSE
    LET e == IF Cardinality(DOMAIN c.mainCache) = c.capacity
             THEN ARCLRU_evictLeastRecent(c) ELSE c
        g == IF Cardinality(e.ghostCache) = e.ghostCapacity
             THEN ARCLRU_removeOldestGhostNode(e) ELSE e
    IN [cache |-> [g EXCEPT !.capacity = @ - 1, !.ghostCapacity = @ - 1],
        ok |-> TRUE]

(***************************************************************************)
(* ARCLFUCache, the frequency half of ARC (src/src/ARC/CacheARCLFUPart.h). *)
(* mainCache  : mainCache_, key -> [val, count] of the node                *)
(* freqMap    : freqMap_, frequency -> keys of the std::list, front first  *)
(* minFreq    : minFreq_                                                   *)
(* ghostCache : key set of ghostCache_                                     *)
(* ghostList  : keys between ghostHead_ and ghostTail_, head side first    *)
(*              (oldest ghost first)                                       *)
(***************************************************************************)
ARCLFUCache_new(capacity) ==
  [capacity |-> capacity, ghostCapacity |-> capacity, minFreq |-> 0,
   mainCache |-> EmptyMap, freqMap |-> EmptyMap,
   ghostCache |-> {}, ghostList |-> <<>>]

\* freqMap_.begin()->first: the smallest frequency of the ordered map.
ARCLFU_firstFreq(m) ==
  CHOOSE f \in DOMAIN m : \A g \in DOMAIN m : f <= g

\* removeOldestGhostNode: ghostHead_->next is unlinked and its key erased.
ARCLFU_removeOldestGhostNode(c) ==
  IF c.ghostList = <<>> THEN c
  ELSE [c EXCEPT !.ghostList = Tail(c.ghostList),
                 !.ghostCache = c.ghostCache \ {Head(c.ghostList)}]

\* addToGhostCache: the node is linked right before ghostTail_.
ARCLFU_addToGhostCache(c, k) ==
  [c EXCEPT !.ghostCache = c.ghostCache \cup {k},
            !.ghostList = Append(c.ghostList, k)]

\* The tail of evictLeastRecent once the list at iterator f is chosen.
ARCLFU_evictFront(c, f) ==
  LET k == Head(c.freqMap[f])
      l == Tail(c.freqMap[f])
      m == IF l = <<>> THEN MapErase(c.freqMap, f) ELSE MapPut(c.freqMap, f, l)
      p == [c EXCEPT !.freqMap = m,
                     !.minFreq = IF l = <<>>
                                 THEN (IF DOMAIN m # {} THEN ARCLFU_firstFreq(m) ELSE 0)
                                 ELSE c.minFreq]
      g == IF Cardinality(p.ghostCache) >= p.ghostCapacity
           THEN ARCLFU_removeOldestGhostNode(p) ELSE p
      a == ARCLFU_addToGhostCache(g, k)
  IN [a EXCEPT !.mainCache = MapErase(a.mainCache, k)]

ARCLFU_evictLeastRecent(c) ==
  IF DOMAIN c.freqMap = {} THEN c
  ELSE IF c.minFreq \notin DOMAIN c.freqMap THEN c
  ELSE IF c.freqMap[c.minFreq] = <<>>
  THEN LET m == MapErase(c.freqMap, c.minFreq) IN
       IF DOMAIN m = {}
       THEN [c EXCEPT !.freqMap = m, !.minFreq = 0]
       ELSE ARCLFU_evictFront([c EXCEPT !.freqMap = m], ARCLFU_firstFreq(m))
  ELSE ARCLFU_evictFront(c, c.minFreq)

\* updateNodeFrequency (the size_t count does not wrap within the bounds).
ARCLFU_updateNodeFrequency(c, k) ==
  LET oldFreq == c.mainCache[k].count
      newFreq == oldFreq + 1
      i == [c EXCEPT !.mainCache[k].count = newFreq]
      r == IF oldFreq \in DOMAIN i.freqMap
           THEN LET l == Unlink(i.freqMap[oldFreq], k) IN
                IF l = <<>>
                THEN [i EXCEPT !.freqMap = MapErase(i.freqMap, oldFreq),
                               !.minFreq = IF i.minFreq = oldFreq THEN newFreq
                                           ELSE i.minFreq]
                ELSE [i EXCEPT !.freqMap = MapPut(i.freqMap, oldFreq, l)]
           ELSE i
      nl == IF newFreq \in DOMAIN r.freqMap THEN r.freqMap[newFreq] ELSE <<>>
  IN [r EXCEPT !.freqMap = MapPut(r.freqMap, newFreq, Append(nl, k)),
               !.minFreq = IntMin(r.minFreq, newFreq)]

ARCLFU_updateExistingNode(c, k, v) ==
  ARCLFU_updateNodeFrequency([c EXCEPT !.mainCache[k].val = v], k)

ARCLFU_addNewNode(c, k, v) ==
  LET e == IF Cardinality(DOMAIN c.mainCache) >= c.capacity
           THEN ARCLFU_evictLeastRecent(c) ELSE c
      l == IF 1 \in DOMAIN e.freqMap THEN e.freqMap[1] ELSE <<>>
  IN [e EXCEPT !.mainCache = MapPut(e.mainCache, k, [val |-> v, count |-> 1]),
               !.freqMap = MapPut(e.freqMap, 1, Append(l, k)),
               !.minFreq = 1]

ARCLFUCache_get(c, k, out) ==
  IF k \in DOMAIN c.mainCache
  THEN [cache |-> ARCLFU_updateNodeFrequency(c, k), hit |-> TRUE,
        val |-> c.mainCache[k].val]
  ELSE [cache |-> c, hit |-> FALSE, val |-> out]

ARCLFUCache_put(c, k, v) ==
  IF 0 = c.capacity THEN c
  ELSE IF k \in DOMAIN c.mainCache THEN ARCLFU_updateExistingNode(c, k, v)
  ELSE ARCLFU_addNewNode(c, k, v)

ARCLFUCache_contains(c, k) ==
  k \in DOMAIN c.mainCache

ARCLFUCache_checkGhost(c, k) ==
  IF k \in c.ghostCache
  THEN [cache |-> [c EXCEPT !.ghostList = RemoveLast(c.ghostList, k),
                            !.ghostCache = c.ghostCache \ {k}],
        found |-> TRUE]
  ELSE [cache |-> c, found |-> FALSE]

ARCLFUCache_increaseCapacity(c) ==
  [c EXCEPT !.capacity = @ + 1, !.ghostCapacity = @ + 1]

ARCLFUCache_decreaseCapacity(c) ==
  IF 0 >= c.capacity THEN [cache |-> c, ok |-> FALSE]
  ELSE
    LET e == IF Cardinality(DOMAIN c.mainCache) = c.capacity
             THEN ARCLFU_evictLeastRecent(c) ELSE c
        g == IF Cardinality(e.ghostCache) = e.ghostCapacity
             THEN ARCLFU_removeOldestGhostNode(e) ELSE e
    IN [cache |-> [g EXCEPT !.capacity = @ - 1, !.ghostCapacity = @ - 1],
        ok |-> TRUE]

(***************************************************************************)
(* ARCCache (src/src/ARC/CacheARC.h).                                      *)
(* capacity, transformThreshold : capacity_, transformThreshold_           *)
(* lruCache, lfuCache           : *lruCache_, *lfuCache_                   *)
(***************************************************************************)
ARCCache_new(capacity, transformThreshold) ==
  [capacity |-> capacity, transformThreshold |-> transformThreshold,
   lruCache |-> ARCLRUCache_new(capacity),
   lfuCache |-> ARCLFUCache_new(capacity)]

\* A faulty checkGhost that grows the favoured half whether or not the other
\* half could shrink.
ARCCache_checkGhostAlwaysGrows(c, key) ==
  LET gl == ARCLRUCache_checkGhost(c.lruCache, key) IN
  IF gl.found
  THEN [c EXCEPT !.lruCache = ARCLRUCache_increaseCapacity(gl.cache),
                 !.lfuCache = ARCLFUCache_decreaseCapacity(c.lfuCache).cache]
  ELSE
    LET gf == ARCLFUCache_checkGhost(c.lfuCache, key) IN
    IF gf.found
    THEN [c EXCEPT !.lfuCache = ARCLFUCache_increaseCapacity(gf.cache),
                   !.lruCache = ARCLRUCache_decreaseCapacity(c.lruCache).cache]
    ELSE c

ARCCache_checkGhost(c, key) ==
  LET gl == ARCLRUCache_checkGhost(c.lruCache, key) IN
  IF gl.found
  THEN LET d == ARCLFUCache_decreaseCapacity(c.lfuCache) IN
       [c EXCEPT !.lruCache = IF d.ok THEN ARCLRUCache_increaseCapacity(gl.cache)
                              ELSE gl.cache,
                 !.lfuCache = d.cache]
  ELSE
    LET gf == ARCLFUCache_checkGhost(c.lfuCache, key) IN
    IF gf.found
    THEN LET d == ARCLRUCache_decreaseCapacity(c.lruCache) IN
         [c EXCEPT !.lfuCache = IF d.ok THEN ARCLFUCache_increaseCapacity(gf.cache)
                                ELSE gf.cache,
                   !.lruCache = d.cache]
    ELSE c

\* get once checkGhost has run: g is the cache it leaves.
ARCCache_getAfterGhost(g, key, out) ==
  LET l == ARCLRUCache_get(g.lruCache, key, out, g.transformThreshold)
  IN IF l.hit
     THEN [cache |-> [g EXCEPT !.lruCache = l.cache,
                               !.lfuCache = IF l.shouldTransform
                                            THEN ARCLFUCache_put(g.lfuCache, key, l.val)
                                            ELSE g.lfuCache],
           hit |-> TRUE, val |-> l.val]
     ELSE LET f == ARCLFUCache_get(g.lfuCache, key, l.val)
          IN [cache |-> [g EXCEPT !.lfuCache = f.cache],
              hit |-> f.hit, val |-> f.val]

ARCCache_get(c, key, out) ==
  ARCCache_getAfterGhost(ARCCache_checkGhost(c, key), key, out)

\* get(key): Value value; returns it when get(key, value) hits, throws
\* std::runtime_error otherwise.
ARCCache_get1Result(r) ==
  [cache |-> r.cache, hit |-> r.hit, val |-> r.val, threw |-> ~r.hit]

ARCCache_get1(c, key, u) ==
  ARCCache_get1Result(ARCCache_get(c, key, u))

ARCCache_put(c, key, value) ==
  LET g == ARCCache_checkGhost(c, key)
      inLfu == ARCLFUCache_contains(g.lfuCache, key)
  IN [g EXCEPT !.lruCache = ARCLRUCache_put(g.lruCache, key, value),
               !.lfuCache = IF inLfu THEN ARCLFUCache_put(g.lfuCache, key, value)
                            ELSE g.lfuCache]

(***************************************************************************)
(* LRUHashCache (src/src/LRU/CacheLRUHash.h) and LFUHashCache              *)
(* (src/src/LFU/CacheLFUHash.h).                                           *)
(* capacity : capacity_                                                    *)
(* sliceNum : sliceNum_                                                    *)
(* slices   : lruSliceCaches_ / lfuSliceCaches_, the vector of inner       *)
(*            caches; slices[i + 1] is the element at index i              *)
(***************************************************************************)
\* std::ceil(capacity / static_cast<double>(sliceNum_)), sliceNum_ >= 1.
SliceSize(capacity, sliceNum) ==
  (capacity + sliceNum - 1) \div sliceNum

\* std::hash of an int key (the identity in the library of the build).
Hash(key) ==
  key

LRUHashCache_new(capacity, sliceNum) ==
  [capacity |-> capacity, sliceNum |-> sliceNum,
   slices |-> [i \in 1..sliceNum |-> LRUCache_new(SliceSize(capacity, sliceNum))]]

\* A faulty routing that sends every key to the first shard.
LRUHashCache_sliceIndexFirst(c, key) ==
  Hash(key) % 1

LRUHashCache_sliceIndex(c, key) ==
  Hash(key) % c.sliceNum

LRUHashCache_put(c, key, val) ==
  [c EXCEPT !.slices[LRUHashCache_sliceIndex(c, key) + 1] =
              LRUCache_put(@, key, val)]

LRUHashCache_getIn(c, i, key, out) ==
  [cache |-> [c EXCEPT !.slices[i] = LRUCache_get(@, key, out).cache],
   hit |-> LRUCache_get(c.slices[i], key, out).hit,
   val |-> LRUCache_get(c.slices[i], key, out).val]

LRUHashCache_get(c, key, out) ==
  LRUHashCache_getIn(c, LRUHashCache_sliceIndex(c, key) + 1, key, out)

LFUHashCache_new(capacity, sliceNum, maxAvgFreq) ==
  [capacity |-> capacity, sliceNum |-> sliceNum,
   slices |-> [i \in 1..sliceNum |->
                 LFUAvgCache_new(SliceSize(capacity, sliceNum), maxAvgFreq)]]

LFUHashCache_getSliceIndex(c, key) ==
  Hash(key) % c.sliceNum

LFUHashCache_put(c, key, val, ord) ==
  IF LFUHashCache_getSliceIndex(c, key) < Len(c.slices)
  THEN [c EXCEPT !.slices[LFUHashCache_getSliceIndex(c, key) + 1] =
                   LFUAvgCache_put(@, key, val, ord)]
  ELSE c

LFUHashCache_getIn(c, i, key, out, ord) ==
  [cache |-> [c EXCEPT !.slices[i] = LFUAvgCache_get(@, key, out, ord).cache],
   hit |-> LFUAvgCache_get(c.slices[i], key, out, ord).hit,
   val |-> LFUAvgCache_get(c.slices[i], key, out, ord).val]

LFUHashCache_get(c, key, out, ord) ==
  IF LFUHashCache_getSliceIndex(c, key) < Len(c.slices)
  THEN LFUHashCache_getIn(c, LFUHashCache_getSliceIndex(c, key) + 1, key, out, ord)
  ELSE [cache |-> c, hit |-> FALSE, val |-> out]

\* purge: every shard is purged, then the vector itself is cleared.
LFUHashCache_purge(c) ==
  [c EXCEPT !.slices = <<>>]


(***************************************************************************)
(* The state machine.  Besides the cache objects the state holds           *)
(* observations of the run, written by the actions and never read by the   *)
(* operations:                                                             *)
(*   xxxLast  : the last call, its arguments and what it returned          *)
(*   lruTouch : the keys in the order of their latest touch by put or get  *)
(*              hit, oldest first                                          *)
(*   lrukAcc  : per key, the number of put/get calls made on it            *)
(*   lrukLog  : the calls made since construction, while at most MaxLog    *)
(*   lfuReach : the keys in the order in which they reached their current  *)
(*              frequency, oldest first                                    *)
(***************************************************************************)
NoCall ==
  [op |-> "none", key |-> DefaultKey, val |-> DefaultVal,
   hit |-> FALSE, out |-> DefaultVal]

Call(op, key, val, hit, out) ==
  [op |-> op, key |-> key, val |-> val, hit |-> hit, out |-> out]

Touch(s, k) ==
  Append(Unlink(s, k), k)

\* The values an uninitialised local of type Value may hold.
Indeterminate ==
  {DefaultVal} \cup Vals

\* The iteration orders of an unordered_map over the keys.
Orders ==
  {s \in [1..NumKeys -> Keys] : \A i, j \in 1..NumKeys : i # j => s[i] # s[j]}

DefaultMaxAvgFreq == 1000000

\* Default of LFUHashCache's constructor parameter maxAvgFreq.
HashMaxAvgFreq == 10

IdleLRU ==
  /\ lru = LRUCache_new(0)
  /\ lruTouch = <<>>
  /\ lruLast = NoCall

IdleLRUK ==
  /\ lruk = LRUKCache_new(0, 0, 1)
  /\ lrukAcc = [k \in LrukKeys |-> 0]
  /\ lrukLog = <<>>
  /\ lrukLast = NoCall

IdleLFU ==
  /\ lfu = LFUCache_new(0)
  /\ lfuReach = <<>>
  /\ lfuLast = NoCall

IdleLFUAvg ==
  /\ lfuAvg = LFUAvgCache_new(0, DefaultMaxAvgFreq)
  /\ lfuAvgLast = NoCall

\* The last call on the ARC cache, with what held when it was made: whether
\* the key was in L's and in F's ghost list and the two capacities.
ArcCall(c, op, key, val, hit, out) ==
  [op |-> op, key |-> key, val |-> val, hit |-> hit, out |-> out,
   threw |-> FALSE,
   ghostL |-> key \in c.lruCache.ghostCache,
   ghostF |-> key \in c.lfuCache.ghostCache,
   capL |-> c.lruCache.capacity, capF |-> c.lfuCache.capacity]

IdleARC ==
  /\ arc = ARCCache_new(0, 2)
  /\ arcLast = ArcCall(arc, "none", DefaultKey, DefaultVal, FALSE, DefaultVal)

lruVars == <<lru, lruTouch, lruLast>>
lrukVars == <<lruk, lrukAcc, lrukLog, lrukLast>>
lfuVars == <<lfu, lfuReach, lfuLast>>
lfuAvgVars == <<lfuAvg, lfuAvgLast>>
arcVars == <<arc, arcLast>>
concVars ==
  <<concKind, thr, mutex, replica, conc0, concLog, concCalls, concFault>>
hashVars == <<hashKind, lruHash, lfuHash, shards, hashLast>>
auxVars == <<concVars, hashVars>>

(***************************************************************************)
(* Threads.  thr[t] is the activation record of the call thread t is in:   *)
(*   pc         : "idle", or the statement of the method it is about to    *)
(*                execute                                                  *)
(*   op, key, val : the call and its arguments                             *)
(*   hit, out   : what the call returned (bool result, out-parameter)      *)
(*   cnt, flag  : the method's locals (histCount; inMainCache, inLfu,      *)
(*                shouldTransform or the result of a ghost probe)          *)
(*   ord        : the iteration order of cacheMap_ seen by the call        *)
(*   pend       : the result computed inside a critical section, before    *)
(*                it is stored                                             *)
(*   slot       : the index of the call in concLog                         *)
(*   expHit, expOut : what the call returns when run on replica            *)
(* mutex[m] is the thread that holds mutex m, or NoOwner.                  *)
(***************************************************************************)
Threads == 1..NumThreads

NoOwner == 0

Mutexes ==
  {"mutex_", "main.mutex_", "histList_.mutex_", "lruCache_.mutex_", "lfuCache_.mutex_"}

NoThread ==
  [pc |-> "idle", op |-> "none", key |-> DefaultKey, val |-> DefaultVal,
   hit |-> FALSE, out |-> DefaultVal, cnt |-> 0, flag |-> FALSE,
   ord |-> <<>>, pend |-> <<>>, slot |-> 0,
   expHit |-> FALSE, expOut |-> DefaultVal]

IdleConc ==
  /\ concKind = "none"
  /\ thr = [t \in Threads |-> NoThread]
  /\ mutex = [m \in Mutexes |-> NoOwner]
  /\ replica = <<>>
  /\ conc0 = <<>>
  /\ concLog = <<>>
  /\ concCalls = 0
  /\ concFault = FALSE

\* The last call on a sharded cache: its arguments and result, the index of
\* the shard it used (NoSlice when it used none), and the result of the
\* same call on the independent inner cache of that index.
HashCall(op, key, val, hit, out, slice, refHit, refOut) ==
  [op |-> op, key |-> key, val |-> val, hit |-> hit, out |-> out,
   slice |-> slice, refHit |-> refHit, refOut |-> refOut]

NoSlice == -1

NoHashCall ==
  HashCall("none", DefaultKey, DefaultVal, FALSE, DefaultVal, NoSlice, FALSE, DefaultVal)

IdleHash ==
  /\ hashKind = "none"
  /\ lruHash = LRUHashCache_new(0, 1)
  /\ lfuHash = LFUHashCache_new(0, 1, HashMaxAvgFreq)
  /\ shards = <<>>
  /\ hashLast = NoHashCall

IdleAux ==
  IdleConc /\ IdleHash

(***************************************************************************)
(* Concurrent use of one cache object by the threads of Threads.  The      *)
(* cache under test is chosen at construction (concKind) and lives in the  *)
(* variable of its class; every other cache stays as constructed.  A call  *)
(* is made of steps: taking a mutex (std::lock_guard's constructor, which  *)
(* blocks while another thread holds it), the statements executed while    *)
(* it is held, and its release at the end of the scope.  Observations      *)
(* written by the steps and never read by the code:                        *)
(*   replica : for a cache with a single mutex, a second cache on which    *)
(*             each call is run as a whole at the moment the calling       *)
(*             thread takes the mutex                                      *)
(*   conc0   : the cache as constructed                                    *)
(*   concLog : the calls in the order they were started, with what they    *)
(*             returned                                                    *)
(***************************************************************************)
LockedKinds == {"LRUCache", "LFUCache", "LFUAvgCache"}

ConcKinds == LockedKinds \cup {"LRUKCache", "ARCCache"}

ConcKeys == 1..ConcNumKeys

\* Iteration orders of cacheMap_ over the keys a concurrent run uses.
ConcOrders ==
  {ord \in Orders : \A i \in 1..NumKeys : ord[i] \in ConcKeys => i <= ConcNumKeys}

CacheOf(kind) ==
  CASE kind = "LRUCache" -> lru
    [] kind = "LFUCache" -> lfu
    [] kind = "LFUAvgCache" -> lfuAvg
    [] kind = "LRUKCache" -> lruk
    [] kind = "ARCCache" -> arc

SetCache(c) ==
  /\ lru' = IF concKind = "LRUCache" THEN c ELSE lru
  /\ lfu' = IF concKind = "LFUCache" THEN c ELSE lfu
  /\ lfuAvg' = IF concKind = "LFUAvgCache" THEN c ELSE lfuAvg
  /\ lruk' = IF concKind = "LRUKCache" THEN c ELSE lruk
  /\ arc' = IF concKind = "ARCCache" THEN c ELSE arc

cacheVars == <<lru, lfu, lfuAvg, lruk, arc>>

obsVars ==
  <<lruTouch, lruLast, lrukAcc, lrukLog, lrukLast, lfuReach, lfuLast,
    lfuAvgLast, arcLast, hashVars>>

\* The process has died: LFUAvgCache dereferenced a null pointer.
Faulted ==
  concFault \/ (concKind = "LFUAvgCache" /\ lfuAvg.crashed)

ConcOpsOf(kind) ==
  CASE kind = "LRUCache" -> {"put", "get", "remove"}
    [] kind \in {"LFUCache", "LFUAvgCache"} -> {"put", "get", "purge"}
    [] OTHER -> {"put", "get"}

\* One whole call of a cache with a single mutex, on cache c.
LockedRun(kind, c, op, key, val, out, ord) ==
  CASE kind = "LRUCache" /\ op = "put" ->
         [cache |-> LRUCache_put(c, key, val), hit |-> FALSE, val |-> out]
    [] kind = "LRUCache" /\ op = "get" -> LRUCache_get(c, key, out)
    [] kind = "LRUCache" /\ op = "remove" ->
         [cache |-> LRUCache_remove(c, key), hit |-> FALSE, val |-> out]
    [] kind = "LFUCache" /\ op = "put" ->
         [cache |-> LFUCache_put(c, key, val), hit |-> FALSE, val |-> out]
    [] kind = "LFUCache" /\ op = "get" -> LFUCache_get(c, key, out)
    [] kind = "LFUCache" /\ op = "purge" ->
         [cache |-> LFUCache_purge(c), hit |-> FALSE, val |-> out]
    [] kind = "LFUAvgCache" /\ op = "put" ->
         [cache |-> LFUAvgCache_put(c, key, val, ord), hit |-> FALSE, val |-> out]
    [] kind = "LFUAvgCache" /\ op = "get" -> LFUAvgCache_get(c, key, out, ord)
    [] kind = "LFUAvgCache" /\ op = "purge" ->
         [cache |-> LFUAvgCache_purge(c), hit |-> FALSE, val |-> out]

\* A lock_guard that never waits.
MutexNeverWaits(m) ==
  mutex[m] \in Threads \cup {NoOwner}

\* std::lock_guard<std::mutex> lock(m): the constructor returns only when
\* no thread holds m.
MutexFree(m) ==
  mutex[m] = NoOwner

Holding(t) ==
  {m \in Mutexes : mutex[m] = t}

FirstPc(kind, op) ==
  CASE kind \in LockedKinds -> "entry"
    [] kind = "LRUKCache" /\ op = "put" -> "put:main.get"
    [] kind = "LRUKCache" /\ op = "get" -> "get:main.get"
    [] kind = "ARCCache" -> "ghost:L.checkGhost"

\* The entry of concLog for a call: who made it, its arguments and result,
\* and the calls of the log that had returned when it was made.
ConcCallRecord(t, op, key, val) ==
  [t |-> t, op |-> op, key |-> key, val |-> val,
   hit |-> FALSE, out |-> DefaultVal, done |-> FALSE,
   after |-> IF \A u \in Threads : thr[u].pc = "idle" THEN {}
             ELSE {i \in 1..Len(concLog) : concLog[i].done}]

\* No thread is inside a call.
Quiescent ==
  \A t \in Threads : thr[t].pc = "idle"

\* Thread t calls a method of the cache.  A call made while no other call
\* is in progress starts the observations afresh from the current cache.
ConcCall(t) ==
  /\ ~Faulted
  /\ thr[t].pc = "idle"
  /\ concCalls < MaxConcOps
  /\ concCalls' = concCalls + 1
  /\ \E op \in ConcOpsOf(concKind), key \in ConcKeys, val \in Vals :
       /\ op # "put" => val = 1
       /\ op = "purge" => key = 1
       /\ thr' = [u \in Threads |->
                    IF u = t
                    THEN [NoThread EXCEPT !.pc = FirstPc(concKind, op), !.op = op,
                                          !.key = key, !.val = val,
                                          !.slot = IF Quiescent THEN 1
                                                   ELSE Len(concLog) + 1]
                    ELSE IF Quiescent THEN NoThread ELSE thr[u]]
       /\ concLog' = IF Quiescent THEN <<ConcCallRecord(t, op, key, val)>>
                     ELSE Append(concLog, ConcCallRecord(t, op, key, val))
  /\ conc0' = IF Quiescent THEN CacheOf(concKind) ELSE conc0
  /\ UNCHANGED <<cacheVars, obsVars, concKind, mutex, replica, concFault>>

\* The thread record and the log when t's call returns hit / out.
Returned(t, hit, out) ==
  [thr EXCEPT ![t].pc = "idle", ![t].hit = hit, ![t].out = out,
              ![t].pend = <<>>, ![t].ord = <<>>]

LoggedReturn(t, hit, out) ==
  [concLog EXCEPT ![thr[t].slot].hit = hit, ![thr[t].slot].out = out,
                  ![thr[t].slot].done = TRUE]

\* put of a cache with capacity 0 returns before it takes the mutex; every
\* other call starts by taking it.
LockedEnter(t) ==
  /\ ~Faulted
  /\ concKind \in LockedKinds
  /\ thr[t].pc = "entry"
  /\ IF thr[t].op = "put" /\ CacheOf(concKind).capacity = 0
     THEN /\ thr' = Returned(t, FALSE, DefaultVal)
          /\ concLog' = LoggedReturn(t, FALSE, DefaultVal)
          /\ UNCHANGED <<mutex, replica>>
     ELSE /\ MutexFree("mutex_")
          /\ mutex' = [mutex EXCEPT !["mutex_"] = t]
          /\ \E ord \in ConcOrders :
               \E r \in {LockedRun(concKind, replica, thr[t].op, thr[t].key,
                                   thr[t].val, DefaultVal, ord)} :
                 /\ replica' = r.cache
                 /\ thr' = [thr EXCEPT ![t].pc = "locked", ![t].ord = ord,
                                       ![t].expHit = r.hit, ![t].expOut = r.val]
          /\ UNCHANGED concLog
  /\ UNCHANGED <<cacheVars, obsVars, concKind, conc0, concCalls, concFault>>

\* The body of the method, run while the mutex is held: what it reads from
\* the cache and computes from it.
LockedBody(t) ==
  /\ ~Faulted
  /\ concKind \in LockedKinds
  /\ thr[t].pc = "locked"
  /\ thr' = [thr EXCEPT ![t].pc = "unlock",
                        ![t].pend = LockedRun(concKind, CacheOf(concKind), thr[t].op,
                                              thr[t].key, thr[t].val, DefaultVal,
                                              thr[t].ord)]
  /\ UNCHANGED <<cacheVars, obsVars, concKind, mutex, replica, conc0, concLog,
                 concCalls, concFault>>

\* What the body stores, then the end of the lock_guard's scope.
LockedLeave(t) ==
  /\ ~Faulted
  /\ concKind \in LockedKinds
  /\ thr[t].pc = "unlock"
  /\ SetCache(thr[t].pend.cache)
  /\ IF concKind = "LFUAvgCache" /\ thr[t].pend.cache.crashed
     THEN UNCHANGED <<mutex, thr, concLog>>
     ELSE /\ mutex' = [mutex EXCEPT !["mutex_"] = NoOwner]
          /\ thr' = Returned(t, thr[t].pend.hit, thr[t].pend.val)
          /\ concLog' = LoggedReturn(t, thr[t].pend.hit, thr[t].pend.val)
  /\ UNCHANGED <<obsVars, concKind, replica, conc0, concCalls, concFault>>

(***************************************************************************)
(* LRUKCache and ARCCache have no mutex of their own: their methods call   *)
(* the methods of the inner caches one after the other, and each inner     *)
(* call takes and releases the inner cache's own mutex.  A thread's pc     *)
(* names the inner call (or the unprotected statement) it executes next.   *)
(***************************************************************************)
HistCalls == {"put:hist.get", "put:hist.put", "put:hist.remove",
              "get:hist.get", "get:hist.put", "get:hist.remove"}

\* Statements on histValMap_, which no mutex protects.
HistValReads == {"get:histVal.find"}

HistValWrites == {"put:histVal.store", "put:histVal.erase", "get:histVal.erase"}

\* The mutex the call at pc takes (LRUCache::put returns before taking it
\* when the capacity is 0).
LRUKMutexAt(c, pc) ==
  CASE pc \in {"put:main.update", "put:main.put", "get:main.put"} ->
         IF c.main.capacity = 0 THEN "none" ELSE "main.mutex_"
    [] pc \in {"put:main.get", "get:main.get"} -> "main.mutex_"
    [] pc \in {"put:hist.put", "get:hist.put"} ->
         IF c.histList.capacity = 0 THEN "none" ELSE "histList_.mutex_"
    [] pc \in HistCalls -> "histList_.mutex_"
    [] OTHER -> "none"

\* One statement of LRUKCache::put by a thread with record th: the cache it
\* leaves, the thread's locals, and whether the method has returned.
LRUKCache_putStep(c, th) ==
  CASE th.pc = "put:main.get" ->
         [cache |-> [c EXCEPT !.main = LRUCache_get(@, th.key, DefaultVal).cache],
          th |-> [th EXCEPT !.pc = IF LRUCache_get(c.main, th.key, DefaultVal).hit
                                   THEN "put:main.update" ELSE "put:hist.get"],
          ret |-> FALSE]
    [] th.pc = "put:main.update" ->
         [cache |-> [c EXCEPT !.main = LRUCache_put(@, th.key, th.val)],
          th |-> th, ret |-> TRUE]
    [] th.pc = "put:hist.get" ->
         [cache |-> [c EXCEPT !.histList = LRUCache_get1(@, th.key).cache],
          th |-> [th EXCEPT !.pc = "put:hist.put",
                            !.cnt = LRUCache_get1(c.histList, th.key).val + 1],
          ret |-> FALSE]
    [] th.pc = "put:hist.put" ->
         [cache |-> [c EXCEPT !.histList = LRUCache_put(@, th.key, th.cnt)],
          th |-> [th EXCEPT !.pc = "put:histVal.store"], ret |-> FALSE]
    [] th.pc = "put:histVal.store" ->
         [cache |-> [c EXCEPT !.histValMap = MapPut(@, th.key, th.val)],
          th |-> [th EXCEPT !.pc = "put:hist.remove"], ret |-> th.cnt < c.k]
    [] th.pc = "put:hist.remove" ->
         [cache |-> [c EXCEPT !.histList = LRUCache_remove(@, th.key)],
          th |-> [th EXCEPT !.pc = "put:histVal.erase"], ret |-> FALSE]
    [] th.pc = "put:histVal.erase" ->
         [cache |-> [c EXCEPT !.histValMap = MapErase(@, th.key)],
          th |-> [th EXCEPT !.pc = "put:main.put"], ret |-> FALSE]
    [] th.pc = "put:main.put" ->
         [cache |-> [c EXCEPT !.main = LRUCache_put(@, th.key, th.val)],
          th |-> th, ret |-> TRUE]

\* One statement of LRUKCache::get(key, val).
LRUKCache_getStep(c, th) ==
  CASE th.pc = "get:main.get" ->
         [cache |-> [c EXCEPT !.main = LRUCache_get(@, th.key, th.out).cache],
          th |-> [th EXCEPT !.pc = "get:hist.get",
                            !.flag = LRUCache_get(c.main, th.key, th.out).hit,
                            !.out = LRUCache_get(c.main, th.key, th.out).val],
          ret |-> FALSE]
    [] th.pc = "get:hist.get" ->
         [cache |-> [c EXCEPT !.histList = LRUCache_get1(@, th.key).cache],
          th |-> [th EXCEPT !.pc = "get:hist.put",
                            !.cnt = LRUCache_get1(c.histList, th.key).val + 1],
          ret |-> FALSE]
    [] th.pc = "get:hist.put" ->
         [cache |-> [c EXCEPT !.histList = LRUCache_put(@, th.key, th.cnt)],
          th |-> [th EXCEPT !.pc = "get:histVal.find", !.hit = th.flag],
          ret |-> th.flag \/ th.cnt < c.k]
    [] th.pc = "get:histVal.find" ->
         [cache |-> c,
          th |-> IF th.key \in DOMAIN c.histValMap
                 THEN [th EXCEPT !.pc = "get:hist.remove",
                                 !.out = c.histValMap[th.key]]
                 ELSE [th EXCEPT !.hit = FALSE],
          ret |-> th.key \notin DOMAIN c.histValMap]
    [] th.pc = "get:hist.remove" ->
         [cache |-> [c EXCEPT !.histList = LRUCache_remove(@, th.key)],
          th |-> [th EXCEPT !.pc = "get:histVal.erase"], ret |-> FALSE]
    [] th.pc = "get:histVal.erase" ->
         [cache |-> [c EXCEPT !.histValMap = MapErase(@, th.key)],
          th |-> [th EXCEPT !.pc = "get:main.put"], ret |-> FALSE]
    [] th.pc = "get:main.put" ->
         [cache |-> [c EXCEPT !.main = LRUCache_put(@, th.key, th.out)],
          th |-> [th EXCEPT !.hit = TRUE], ret |-> TRUE]

(***************************************************************************)
(* ARCCache::get and ARCCache::put statement by statement.  L is           *)
(* *lruCache_, F is *lfuCache_.                                            *)
(***************************************************************************)
GhostPcs == {"ghost:L.checkGhost", "ghost:F.decreaseCapacity", "ghost:L.increaseCapacity",
             "ghost:F.checkGhost", "ghost:L.decreaseCapacity", "ghost:F.increaseCapacity"}

LCalls == {"ghost:L.checkGhost", "ghost:L.increaseCapacity", "ghost:L.decreaseCapacity",
           "get:L.get", "put:L.put"}

FCalls == {"ghost:F.checkGhost", "ghost:F.increaseCapacity", "ghost:F.decreaseCapacity",
           "get:F.put", "get:F.get", "put:F.contains", "put:F.put"}

\* The mutex the call at pc takes (put of either half returns before taking
\* it when the capacity is 0).
ARCMutexAt(c, pc) ==
  CASE pc = "put:L.put" ->
         IF c.lruCache.capacity = 0 THEN "none" ELSE "lruCache_.mutex_"
    [] pc \in {"get:F.put", "put:F.put"} ->
         IF c.lfuCache.capacity = 0 THEN "none" ELSE "lfuCache_.mutex_"
    [] pc \in LCalls -> "lruCache_.mutex_"
    [] pc \in FCalls -> "lfuCache_.mutex_"
    [] OTHER -> "none"

\* The statement that follows checkGhost(key) in the calling method.
AfterGhost(th) ==
  [th EXCEPT !.pc = IF th.op = "get" THEN "get:L.get" ELSE "put:F.contains"]

\* One inner call of ARCCache::checkGhost.
ARCCache_checkGhostStep(c, th) ==
  CASE th.pc = "ghost:L.checkGhost" ->
         [cache |-> [c EXCEPT !.lruCache = ARCLRUCache_checkGhost(@, th.key).cache],
          th |-> [th EXCEPT !.pc = IF ARCLRUCache_checkGhost(c.lruCache, th.key).found
                                   THEN "ghost:F.decreaseCapacity"
                                   ELSE "ghost:F.checkGhost"],
          ret |-> FALSE]
    [] th.pc = "ghost:F.decreaseCapacity" ->
         [cache |-> [c EXCEPT !.lfuCache = ARCLFUCache_decreaseCapacity(@).cache],
          th |-> IF ARCLFUCache_decreaseCapacity(c.lfuCache).ok
                 THEN [th EXCEPT !.pc = "ghost:L.increaseCapacity"]
                 ELSE AfterGhost(th),
          ret |-> FALSE]
    [] th.pc = "ghost:L.increaseCapacity" ->
         [cache |-> [c EXCEPT !.lruCache = ARCLRUCache_increaseCapacity(@)],
          th |-> AfterGhost(th), ret |-> FALSE]
    [] th.pc = "ghost:F.checkGhost" ->
         [cache |-> [c EXCEPT !.lfuCache = ARCLFUCache_checkGhost(@, th.key).cache],
          th |-> IF ARCLFUCache_checkGhost(c.lfuCache, th.key).found
                 THEN [th EXCEPT !.pc = "ghost:L.decreaseCapacity"]
                 ELSE AfterGhost(th),
          ret |-> FALSE]
    [] th.pc = "ghost:L.decreaseCapacity" ->
         [cache |-> [c EXCEPT !.lruCache = ARCLRUCache_decreaseCapacity(@).cache],
          th |-> IF ARCLRUCache_decreaseCapacity(c.lruCache).ok
                 THEN [th EXCEPT !.pc = "ghost:F.increaseCapacity"]
                 ELSE AfterGhost(th),
          ret |-> FALSE]
    [] th.pc = "ghost:F.increaseCapacity" ->
         [cache |-> [c EXCEPT !.lfuCache = ARCLFUCache_increaseCapacity(@)],
          th |-> AfterGhost(th), ret |-> FALSE]

\* What lruCache_->get(key, value, shouldTransform) leaves in the thread.
ARCCache_afterLGet(th, l) ==
  IF l.hit
  THEN [th EXCEPT !.pc = "get:F.put", !.hit = TRUE, !.out = l.val,
                  !.flag = l.shouldTransform]
  ELSE [th EXCEPT !.pc = "get:F.get"]

\* One inner call of ARCCache::get(key, value) after checkGhost.
ARCCache_getStep(c, th) ==
  CASE th.pc = "get:L.get" ->
         [cache |-> [c EXCEPT !.lruCache =
                       ARCLRUCache_get(@, th.key, th.out, c.transformThreshold).cache],
          th |-> ARCCache_afterLGet(th, ARCLRUCache_get(c.lruCache, th.key, th.out,
                                                       c.transformThreshold)),
          ret |-> LET l == ARCLRUCache_get(c.lruCache, th.key, th.out,
                                           c.transformThreshold)
                  IN l.hit /\ ~l.shouldTransform]
    [] th.pc = "get:F.put" ->
         [cache |-> [c EXCEPT !.lfuCache = ARCLFUCache_put(@, th.key, th.out)],
          th |-> th, ret |-> TRUE]
    [] th.pc = "get:F.get" ->
         [cache |-> [c EXCEPT !.lfuCache = ARCLFUCache_get(@, th.key, th.out).cache],
          th |-> [th EXCEPT !.hit = ARCLFUCache_get(c.lfuCache, th.key, th.out).hit,
                            !.out = ARCLFUCache_get(c.lfuCache, th.key, th.out).val],
          ret |-> TRUE]

\* One inner call of ARCCache::put after checkGhost.
ARCCache_putStep(c, th) ==
  CASE th.pc = "put:F.contains" ->
         [cache |-> c,
          th |-> [th EXCEPT !.pc = "put:L.put",
                            !.flag = ARCLFUCache_contains(c.lfuCache, th.key)],
          ret |-> FALSE]
    [] th.pc = "put:L.put" ->
         [cache |-> [c EXCEPT !.lruCache = ARCLRUCache_put(@, th.key, th.val)],
          th |-> [th EXCEPT !.pc = "put:F.put"], ret |-> ~th.flag]
    [] th.pc = "put:F.put" ->
         [cache |-> [c EXCEPT !.lfuCache = ARCLFUCache_put(@, th.key, th.val)],
          th |-> th, ret |-> TRUE]

\* The mutex the next statement of thread t needs.
MutexAt(t) ==
  CASE concKind = "LRUKCache" -> LRUKMutexAt(lruk, thr[t].pc)
    [] concKind = "ARCCache" -> ARCMutexAt(arc, thr[t].pc)
    [] OTHER -> "none"

\* Thread t enters an inner call: the lock_guard of the inner cache.
ConcLock(t) ==
  /\ ~Faulted
  /\ concKind \notin LockedKinds
  /\ thr[t].pc # "idle"
  /\ MutexAt(t) # "none"
  /\ MutexFree(MutexAt(t))
  /\ mutex' = [mutex EXCEPT ![MutexAt(t)] = t]
  /\ UNCHANGED <<cacheVars, obsVars, concKind, thr, replica, conc0, concLog,
                 concCalls, concFault>>

\* The effect of a statement of a method without a mutex of its own: r is
\* what the statement leaves; the inner mutex, if any, is released.
ConcStatement(t, r) ==
  /\ SetCache(r.cache)
  /\ mutex' = [m \in Mutexes |-> IF mutex[m] = t THEN NoOwner ELSE mutex[m]]
  /\ thr' = IF r.ret
            THEN [thr EXCEPT ![t] = [r.th EXCEPT !.pc = "idle"]]
            ELSE [thr EXCEPT ![t] = r.th]
  /\ concLog' = IF r.ret
                THEN [concLog EXCEPT ![thr[t].slot].hit = r.th.hit,
                                     ![thr[t].slot].out = r.th.out,
                                     ![thr[t].slot].done = TRUE]
                ELSE concLog
  /\ UNCHANGED <<obsVars, concKind, replica, conc0, concCalls, concFault>>

LRUKPutStep(t) ==
  /\ ~Faulted
  /\ concKind = "LRUKCache"
  /\ thr[t].pc # "idle" /\ thr[t].op = "put"
  /\ MutexAt(t) # "none" => mutex[MutexAt(t)] = t
  /\ ConcStatement(t, LRUKCache_putStep(lruk, thr[t]))

LRUKGetStep(t) ==
  /\ ~Faulted
  /\ concKind = "LRUKCache"
  /\ thr[t].pc # "idle" /\ thr[t].op = "get"
  /\ MutexAt(t) # "none" => mutex[MutexAt(t)] = t
  /\ ConcStatement(t, LRUKCache_getStep(lruk, thr[t]))

ARCCheckGhostStep(t) ==
  /\ ~Faulted
  /\ concKind = "ARCCache"
  /\ thr[t].pc \in GhostPcs
  /\ mutex[MutexAt(t)] = t
  /\ ConcStatement(t, ARCCache_checkGhostStep(arc, thr[t]))

ARCGetStep(t) ==
  /\ ~Faulted
  /\ concKind = "ARCCache"
  /\ thr[t].pc \in {"get:L.get", "get:F.put", "get:F.get"}
  /\ MutexAt(t) # "none" => mutex[MutexAt(t)] = t
  /\ ConcStatement(t, ARCCache_getStep(arc, thr[t]))

ARCPutStep(t) ==
  /\ ~Faulted
  /\ concKind = "ARCCache"
  /\ thr[t].pc \in {"put:F.contains", "put:L.put", "put:F.put"}
  /\ MutexAt(t) # "none" => mutex[MutexAt(t)] = t
  /\ ConcStatement(t, ARCCache_putStep(arc, thr[t]))

\* Two threads are at statements on histValMap_ and at least one of them
\* writes it: a data race.
HistValMapRace ==
  /\ concKind = "LRUKCache"
  /\ \E t1, t2 \in Threads :
       /\ t1 # t2
       /\ thr[t1].pc \in HistValWrites
       /\ thr[t2].pc \in HistValWrites \cup HistValReads

\* A thread is about to read capacity_ of L or F in put, before the
\* lock_guard, while another thread is inside increaseCapacity or
\* decreaseCapacity of the same half, which write it: a data race.
CapacityRace ==
  /\ concKind = "ARCCache"
  /\ \E t1, t2 \in Threads :
       /\ t1 # t2
       /\ \/ /\ thr[t1].pc = "put:L.put"
             /\ thr[t2].pc \in {"ghost:L.increaseCapacity", "ghost:L.decreaseCapacity"}
          \/ /\ thr[t1].pc \in {"get:F.put", "put:F.put"}
             /\ thr[t2].pc \in {"ghost:F.increaseCapacity", "ghost:F.decreaseCapacity"}
       /\ mutex[MutexAt(t2)] = t2

\* A data race has undefined behaviour: besides any interleaving of the two
\* statements, the process may die.
ConcRace ==
  /\ ~Faulted
  /\ HistValMapRace \/ CapacityRace
  /\ concFault' = TRUE
  /\ UNCHANGED <<cacheVars, obsVars, concKind, thr, mutex, replica, conc0, concLog,
                 concCalls>>

InitConc ==
  /\ concKind \in ConcKinds
  /\ lru \in IF concKind = "LRUCache"
             THEN {LRUCache_new(n) : n \in 0..ConcMaxCapacity}
             ELSE {LRUCache_new(0)}
  /\ lruTouch = <<>>
  /\ lruLast = NoCall
  /\ lruk \in IF concKind = "LRUKCache"
              THEN {LRUKCache_new(n, m, k) :
                      n \in 1..ConcMaxCapacity,
                      m \in ConcMaxHistCapacity..ConcMaxHistCapacity,
                      k \in 1..MaxK}
              ELSE {LRUKCache_new(0, 0, 1)}
  /\ lrukAcc = [k \in LrukKeys |-> 0]
  /\ lrukLog = <<>>
  /\ lrukLast = NoCall
  /\ lfu \in IF concKind = "LFUCache"
             THEN {LFUCache_new(n) : n \in 0..ConcMaxCapacity}
             ELSE {LFUCache_new(0)}
  /\ lfuReach = <<>>
  /\ lfuLast = NoCall
  /\ lfuAvg \in IF concKind = "LFUAvgCache"
                THEN {LFUAvgCache_new(n, a) :
                        n \in 0..ConcMaxCapacity, a \in {1, DefaultMaxAvgFreq}}
                ELSE {LFUAvgCache_new(0, DefaultMaxAvgFreq)}
  /\ lfuAvgLast = NoCall
  /\ arc \in IF concKind = "ARCCache"
             THEN {ARCCache_new(n, T) : n \in 1..ConcMaxCapacity, T \in 1..ConcMaxThreshold}
             ELSE {ARCCache_new(0, 2)}
  /\ arcLast = ArcCall(arc, "none", DefaultKey, DefaultVal, FALSE, DefaultVal)
  /\ thr = [t \in Threads |-> NoThread]
  /\ mutex = [m \in Mutexes |-> NoOwner]
  /\ replica = CacheOf(concKind)
  /\ conc0 = CacheOf(concKind)
  /\ concLog = <<>>
  /\ concCalls = 0
  /\ concFault = FALSE
  /\ IdleHash

NextConc ==
  \E t \in Threads :
    \/ ConcCall(t)
    \/ LockedEnter(t)
    \/ LockedBody(t)
    \/ LockedLeave(t)
    \/ ConcLock(t)
    \/ LRUKPutStep(t)
    \/ LRUKGetStep(t)
    \/ ARCCheckGhostStep(t)
    \/ ARCGetStep(t)
    \/ ARCPutStep(t)
    \/ ConcRace

SpecConc ==
  InitConc /\ [][NextConc]_vars

(***************************************************************************)
(* C13: concurrent calls on one LRUCache, LFUCache or LFUAvgCache are      *)
(* serialised in the order in which the threads took the cache's mutex:    *)
(* every call that has returned returned what the same call returned on    *)
(* the replica, where the calls run one at a time in that order, and       *)
(* whenever the mutex is free the cache equals the replica.                *)
(***************************************************************************)
C13_LockedCallsSerialised ==
  concKind \in LockedKinds =>
    /\ \A t \in Threads :
         (thr[t].pc = "idle" /\ thr[t].op # "none") =>
           (thr[t].hit = thr[t].expHit /\ thr[t].out = thr[t].expOut)
    /\ mutex["mutex_"] = NoOwner => CacheOf(concKind) = replica

\* A get that was called after a put of the same key had been called took
\* the mutex first and returned the value stored before that put, which is
\* now inside its critical section.
C13_Witness ==
  /\ concKind \in LockedKinds
  /\ \E t1, t2 \in Threads :
       /\ thr[t1].pc = "idle" /\ thr[t1].op = "get" /\ thr[t1].hit
       /\ thr[t2].pc = "unlock" /\ thr[t2].op = "put"
       /\ thr[t2].key = thr[t1].key
       /\ thr[t2].val # thr[t1].out
       /\ thr[t2].slot < thr[t1].slot
       /\ mutex["mutex_"] = t2


(***************************************************************************)
(* Sequential runs of the calls of concLog, used to judge the concurrent   *)
(* runs of the caches without a mutex of their own.                        *)
(***************************************************************************)
\* One whole call e on cache c.
SeqCall(kind, c, e) ==
  CASE kind = "LRUKCache" /\ e.op = "put" ->
         [cache |-> LRUKCache_put(c, e.key, e.val), hit |-> FALSE, val |-> DefaultVal]
    [] kind = "LRUKCache" /\ e.op = "get" -> LRUKCache_get(c, e.key, DefaultVal)
    [] kind = "ARCCache" /\ e.op = "put" ->
         [cache |-> ARCCache_put(c, e.key, e.val), hit |-> FALSE, val |-> DefaultVal]
    [] kind = "ARCCache" /\ e.op = "get" -> ARCCache_get(c, e.key, DefaultVal)

\* The orders in which n calls can be run one at a time.
CallOrders(n) ==
  {p \in [1..n -> 1..n] : \A i, j \in 1..n : i # j => p[i] # p[j]}

\* Running the calls log[p[i]], log[p[i+1]], ... one at a time from cache c
\* returns what the log records and ends in cache final.
RECURSIVE SeqRunMatches(_, _, _, _, _, _)
SeqRunMatches(kind, c, log, p, i, final) ==
  IF i > Len(log)
  THEN c = final
  ELSE /\ SeqCall(kind, c, log[p[i]]).hit = log[p[i]].hit
       /\ SeqCall(kind, c, log[p[i]]).val = log[p[i]].out
       /\ SeqRunMatches(kind, SeqCall(kind, c, log[p[i]]).cache, log, p, i + 1, final)

Serialisable(kind) ==
  \E p \in CallOrders(Len(concLog)) :
    SeqRunMatches(kind, conc0, concLog, p, 1, CacheOf(kind))

(***************************************************************************)
(* C14: concurrent put/get calls on one LRUKCache are serialised: when no  *)
(* call is in progress, the results of the calls and the cache (main,      *)
(* history counters, pending values) are those of running the calls one    *)
(* at a time in some order; two puts of a fresh key with K = 2 leave the   *)
(* key in main; no two threads are at statements on the pending-value map  *)
(* at once with one of them writing it.                                    *)
(***************************************************************************)
C14_LRUKCallsSerialised ==
  concKind = "LRUKCache" =>
    /\ ~HistValMapRace
    /\ ~concFault
    /\ Quiescent => Serialisable("LRUKCache")
    /\ (/\ Quiescent /\ lruk.k = 2 /\ Len(concLog) = 2
        /\ conc0 = LRUKCache_new(conc0.main.capacity, conc0.histList.capacity, 2)
        /\ concLog[1].op = "put" /\ concLog[2].op = "put"
        /\ concLog[1].key = concLog[2].key)
       => concLog[1].key \in DOMAIN lruk.main.nodeMap

(***************************************************************************)
(* C15: concurrent get/put calls on one ARCCache are serialised: when no   *)
(* call is in progress, the results of the calls and the cache are those   *)
(* of running the calls one at a time in some order; a get(k) made after   *)
(* put(k,v2) returned, every other put of k having returned before that    *)
(* put was made, does not hit with another value; L and F do not hold      *)
(* different values for one key.                                           *)
(***************************************************************************)
ARCHalvesAgree(c) ==
  \A k \in (DOMAIN c.lruCache.mainCache) \cap (DOMAIN c.lfuCache.mainCache) :
    c.lruCache.mainCache[k].val = c.lfuCache.mainCache[k].val

ARCNoStaleGet ==
  \A g, p \in 1..Len(concLog) :
    (/\ concLog[g].op = "get" /\ concLog[g].done /\ concLog[g].hit
     /\ concLog[p].op = "put" /\ concLog[p].key = concLog[g].key
     /\ p \in concLog[g].after
     /\ \A q \in 1..Len(concLog) :
          (q # p /\ concLog[q].op = "put" /\ concLog[q].key = concLog[p].key)
            => q \in concLog[p].after)
    => concLog[g].out = concLog[p].val

C15_ARCCallsSerialised ==
  concKind = "ARCCache" =>
    /\ ~concFault
    /\ Quiescent => Serialisable("ARCCache")
    /\ ARCNoStaleGet
    /\ Quiescent => ARCHalvesAgree(arc)

(***************************************************************************)
(* C16: in every cache type no thread holds two mutexes at the same time,  *)
(* and there is no deadlock: as long as some thread is inside a call, some *)
(* thread inside a call can take its next step (every call is a bounded    *)
(* number of steps, so under fair scheduling every started call returns).  *)
(***************************************************************************)
\* Thread t is inside a call and its next step is not blocked.
CanStep(t) ==
  /\ ~Faulted
  /\ thr[t].pc # "idle"
  /\ IF concKind \in LockedKinds
     THEN thr[t].pc = "entry" =>
            \/ thr[t].op = "put" /\ CacheOf(concKind).capacity = 0
            \/ MutexFree("mutex_")
     ELSE \/ MutexAt(t) = "none"
          \/ mutex[MutexAt(t)] = t
          \/ MutexFree(MutexAt(t))

C16_OneMutexNoStuckCall ==
  /\ \A t \in Threads : Cardinality(Holding(t)) <= 1
  /\ (\E t \in Threads : thr[t].pc # "idle") => (\E u \in Threads : CanStep(u))

(***************************************************************************)
(* LRUCache: construction with a capacity in 0..MaxCapacity, then put, get *)
(* and remove in any order.                                                *)
(***************************************************************************)
InitLRU ==
  /\ lru \in {LRUCache_new(n) : n \in 0..MaxCapacity}
  /\ lruTouch = <<>>
  /\ lruLast = NoCall
  /\ IdleLRUK /\ IdleLFU /\ IdleLFUAvg /\ IdleARC /\ IdleAux

LRUPut ==
  \E k \in Keys, v \in Vals :
    /\ lru' = LRUCache_put(lru, k, v)
    /\ lruTouch' = Touch(lruTouch, k)
    /\ lruLast' = Call("put", k, v, FALSE, DefaultVal)
    /\ UNCHANGED <<lrukVars, lfuVars, lfuAvgVars, arcVars, auxVars>>

LRUGet ==
  \E k \in Keys :
    LET r == LRUCache_get(lru, k, DefaultVal) IN
    /\ lru' = r.cache
    /\ lruTouch' = IF r.hit THEN Touch(lruTouch, k) ELSE lruTouch
    /\ lruLast' = Call("get", k, DefaultVal, r.hit, r.val)
    /\ UNCHANGED <<lrukVars, lfuVars, lfuAvgVars, arcVars, auxVars>>

LRUGet1 ==
  \E k \in Keys :
    LET r == LRUCache_get1(lru, k) IN
    /\ lru' = r.cache
    /\ lruTouch' = IF r.hit THEN Touch(lruTouch, k) ELSE lruTouch
    /\ lruLast' = Call("get1", k, DefaultVal, r.hit, r.val)
    /\ UNCHANGED <<lrukVars, lfuVars, lfuAvgVars, arcVars, auxVars>>

LRURemove ==
  \E k \in Keys :
    /\ lru' = LRUCache_remove(lru, k)
    /\ lruTouch' = lruTouch
    /\ lruLast' = Call("remove", k, DefaultVal, FALSE, DefaultVal)
    /\ UNCHANGED <<lrukVars, lfuVars, lfuAvgVars, arcVars, auxVars>>

NextLRU ==
  LRUPut \/ LRUGet \/ LRUGet1 \/ LRURemove

SpecLRU ==
  InitLRU /\ [][NextLRU]_vars

(***************************************************************************)
(* LRUKCache: construction with main capacity, history capacity and K,     *)
(* then put and get in any order (at most MaxAccess calls per key).        *)
(***************************************************************************)
Logged(c) ==
  IF Len(lrukLog) < MaxLog /\ (lrukLog = <<>> \/ lrukLog[1].op # "overflow")
  THEN Append(lrukLog, c)
  ELSE <<Call("overflow", DefaultKey, DefaultVal, FALSE, DefaultVal)>>

InitLRUK ==
  /\ lruk \in {LRUKCache_new(n, m, k) :
                 n \in 0..MaxCapacity, m \in 0..MaxHistCapacity, k \in 1..MaxK}
  /\ lrukAcc = [k \in LrukKeys |-> 0]
  /\ lrukLog = <<>>
  /\ lrukLast = NoCall
  /\ IdleLRU /\ IdleLFU /\ IdleLFUAvg /\ IdleARC /\ IdleAux

LRUKPut ==
  \E k \in LrukKeys, v \in Vals :
    /\ lrukAcc[k] < MaxAccess
    /\ lruk' = LRUKCache_put(lruk, k, v)
    /\ lrukAcc' = [lrukAcc EXCEPT ![k] = @ + 1]
    /\ lrukLog' = Logged(Call("put", k, v, FALSE, DefaultVal))
    /\ lrukLast' = Call("put", k, v, FALSE, DefaultVal)
    /\ UNCHANGED <<lruVars, lfuVars, lfuAvgVars, arcVars, auxVars>>

LRUKGet ==
  \E k \in LrukKeys :
    LET r == LRUKCache_get(lruk, k, DefaultVal) IN
    /\ lrukAcc[k] < MaxAccess
    /\ lruk' = r.cache
    /\ lrukAcc' = [lrukAcc EXCEPT ![k] = @ + 1]
    /\ lrukLog' = Logged(Call("get", k, DefaultVal, FALSE, DefaultVal))
    /\ lrukLast' = Call("get", k, DefaultVal, r.hit, r.val)
    /\ UNCHANGED <<lruVars, lfuVars, lfuAvgVars, arcVars, auxVars>>

LRUKGet1 ==
  \E k \in LrukKeys :
    LET r == LRUKCache_get1(lruk, k) IN
    /\ lrukAcc[k] < MaxAccess
    /\ lruk' = r.cache
    /\ lrukAcc' = [lrukAcc EXCEPT ![k] = @ + 1]
    /\ lrukLog' = Logged(Call("get1", k, DefaultVal, FALSE, DefaultVal))
    /\ lrukLast' = Call("get1", k, DefaultVal, r.hit, r.val)
    /\ UNCHANGED <<lruVars, lfuVars, lfuAvgVars, arcVars, auxVars>>

NextLRUK ==
  LRUKPut \/ LRUKGet \/ LRUKGet1

SpecLRUK ==
  InitLRUK /\ [][NextLRUK]_vars

(***************************************************************************)
(* LRUKCache with K = 1 next to an LRUCache of the same capacity: both are *)
(* constructed with main capacity n (the LRUKCache with any history        *)
(* capacity), then every put and get is made on both (at most K1MaxAccess  *)
(* calls per key).  The caller's out variable holds any value before get.  *)
(***************************************************************************)
InitK1 ==
  /\ \E n \in 0..MaxCapacity, m \in 0..MaxHistCapacity :
       /\ lru = LRUCache_new(n)
       /\ lruk = LRUKCache_new(n, m, 1)
  /\ lruTouch = <<>>
  /\ lruLast = NoCall
  /\ lrukAcc = [k \in Keys |-> 0]
  /\ lrukLog = <<>>
  /\ lrukLast = NoCall
  /\ IdleLFU /\ IdleLFUAvg /\ IdleARC /\ IdleAux

K1Put ==
  \E k \in Keys, v \in Vals :
    /\ lrukAcc[k] < K1MaxAccess
    /\ lru' = LRUCache_put(lru, k, v)
    /\ lruk' = LRUKCache_put(lruk, k, v)
    /\ lrukAcc' = [lrukAcc EXCEPT ![k] = @ + 1]
    /\ lruLast' = Call("put", k, v, FALSE, DefaultVal)
    /\ lrukLast' = Call("put", k, v, FALSE, DefaultVal)
    /\ UNCHANGED <<lruTouch, lrukLog, lfuVars, lfuAvgVars, arcVars, auxVars>>

K1Get ==
  \E k \in Keys, out \in Vals \cup {DefaultVal} :
    \E r \in {LRUCache_get(lru, k, out)}, rk \in {LRUKCache_get(lruk, k, out)} :
      /\ lrukAcc[k] < K1MaxAccess
      /\ lru' = r.cache
      /\ lruk' = rk.cache
      /\ lrukAcc' = [lrukAcc EXCEPT ![k] = @ + 1]
      /\ lruLast' = Call("get", k, out, r.hit, r.val)
      /\ lrukLast' = Call("get", k, out, rk.hit, rk.val)
      /\ UNCHANGED <<lruTouch, lrukLog, lfuVars, lfuAvgVars, arcVars, auxVars>>

NextK1 ==
  K1Put \/ K1Get

SpecK1 ==
  InitK1 /\ [][NextK1]_vars

(***************************************************************************)
(* C20: LRUKCache with K = 1 behaves as an LRUCache of the same main       *)
(* capacity: run side by side on the same puts and gets, each get returns  *)
(* the same boolean and value, and after every step main holds the same    *)
(* keys with the same values in the same recency order, for any history    *)
(* capacity.                                                               *)
(***************************************************************************)
C20_LRUK1IsLRU ==
  lruk.k = 1 =>
    /\ lruk.main = lru
    /\ lrukLast.hit = lruLast.hit
    /\ lrukLast.out = lruLast.out

\* A get that hits in a full main of capacity 2 after an eviction, while the
\* history list holds an access count and the plain cache hits as well.
C20_Witness ==
  /\ lruk.k = 1
  /\ lrukLast.op = "get" /\ lrukLast.hit /\ lruLast.hit
  /\ lruk.main.capacity = 2
  /\ Cardinality(DOMAIN lruk.main.nodeMap) = 2
  /\ \E k \in Keys : lrukAcc[k] >= 1 /\ k \notin DOMAIN lruk.main.nodeMap
  /\ DOMAIN lruk.histList.nodeMap # {}

(***************************************************************************)
(* LFUCache: construction with a capacity, then put, get and purge (no     *)
(* frequency above MaxFreq).                                               *)
(***************************************************************************)
InitLFU ==
  /\ lfu \in {LFUCache_new(n) : n \in 0..MaxCapacity}
  /\ lfuReach = <<>>
  /\ lfuLast = NoCall
  /\ IdleLRU /\ IdleLRUK /\ IdleLFUAvg /\ IdleARC /\ IdleAux

LFUPut ==
  \E k \in Keys, v \in Vals :
    /\ lfu' = LFUCache_put(lfu, k, v)
    /\ lfuReach' = IF lfu.capacity # 0 /\ k \notin DOMAIN lfu.cacheMap
                   THEN Touch(lfuReach, k) ELSE lfuReach
    /\ lfuLast' = Call("put", k, v, FALSE, DefaultVal)
    /\ UNCHANGED <<lruVars, lrukVars, lfuAvgVars, arcVars, auxVars>>

LFUGet ==
  \E k \in Keys :
    LET r == LFUCache_get(lfu, k, DefaultVal) IN
    /\ \A x \in DOMAIN r.cache.cacheMap : r.cache.cacheMap[x].freq <= MaxFreq
    /\ lfu' = r.cache
    /\ lfuReach' = IF r.hit THEN Touch(lfuReach, k) ELSE lfuReach
    /\ lfuLast' = Call("get", k, DefaultVal, r.hit, r.val)
    /\ UNCHANGED <<lruVars, lrukVars, lfuAvgVars, arcVars, auxVars>>

LFUGet1 ==
  \E k \in Keys, u \in Indeterminate :
    LET r == LFUCache_get1(lfu, k, u) IN
    /\ \A x \in DOMAIN r.cache.cacheMap : r.cache.cacheMap[x].freq <= MaxFreq
    /\ lfu' = r.cache
    /\ lfuReach' = IF r.hit THEN Touch(lfuReach, k) ELSE lfuReach
    /\ lfuLast' = Call("get1", k, DefaultVal, r.hit, r.val)
    /\ UNCHANGED <<lruVars, lrukVars, lfuAvgVars, arcVars, auxVars>>

LFUPurge ==
  /\ lfu' = LFUCache_purge(lfu)
  /\ lfuReach' = <<>>
  /\ lfuLast' = Call("purge", DefaultKey, DefaultVal, FALSE, DefaultVal)
  /\ UNCHANGED <<lruVars, lrukVars, lfuAvgVars, arcVars, auxVars>>

NextLFU ==
  LFUPut \/ LFUGet \/ LFUGet1 \/ LFUPurge

SpecLFU ==
  InitLFU /\ [][NextLFU]_vars

(***************************************************************************)
(* LFUAvgCache: construction with a capacity and maxAvgFreq, then put, get *)
(* and purge (no frequency above MaxFreq, no total above MaxTotalFreq);    *)
(* nothing runs once the process has faulted.                              *)
(***************************************************************************)
InitLFUAvg ==
  /\ lfuAvg \in {LFUAvgCache_new(n, a) :
                   n \in 0..MaxCapacity, a \in (1..MaxAvgBound) \cup {DefaultMaxAvgFreq}}
  /\ lfuAvgLast = NoCall
  /\ IdleLRU /\ IdleLRUK /\ IdleLFU /\ IdleARC /\ IdleAux

LFUAvgFreqBounded(c) ==
  /\ \A x \in DOMAIN c.cacheMap : c.cacheMap[x].freq <= MaxFreq
  /\ c.currentTotalFreq <= MaxTotalFreq

LFUAvgPut ==
  \E k \in Keys, v \in Vals, ord \in Orders :
    LET c == LFUAvgCache_put(lfuAvg, k, v, ord) IN
    /\ ~lfuAvg.crashed
    /\ LFUAvgFreqBounded(c)
    /\ lfuAvg' = c
    /\ lfuAvgLast' = Call("put", k, v, FALSE, DefaultVal)
    /\ UNCHANGED <<lruVars, lrukVars, lfuVars, arcVars, auxVars>>

LFUAvgGet ==
  \E k \in Keys, ord \in Orders :
    LET r == LFUAvgCache_get(lfuAvg, k, DefaultVal, ord) IN
    /\ ~lfuAvg.crashed
    /\ LFUAvgFreqBounded(r.cache)
    /\ lfuAvg' = r.cache
    /\ lfuAvgLast' = Call("get", k, DefaultVal, r.hit, r.val)
    /\ UNCHANGED <<lruVars, lrukVars, lfuVars, arcVars, auxVars>>

LFUAvgGet1 ==
  \E k \in Keys, u \in Indeterminate, ord \in Orders :
    LET r == LFUAvgCache_get1(lfuAvg, k, u, ord) IN
    /\ ~lfuAvg.crashed
    /\ LFUAvgFreqBounded(r.cache)
    /\ lfuAvg' = r.cache
    /\ lfuAvgLast' = Call("get1", k, DefaultVal, r.hit, r.val)
    /\ UNCHANGED <<lruVars, lrukVars, lfuVars, arcVars, auxVars>>

LFUAvgPurge ==
  /\ ~lfuAvg.crashed
  /\ lfuAvg' = LFUAvgCache_purge(lfuAvg)
  /\ lfuAvgLast' = Call("purge", DefaultKey, DefaultVal, FALSE, DefaultVal)
  /\ UNCHANGED <<lruVars, lrukVars, lfuVars, arcVars, auxVars>>

NextLFUAvg ==
  LFUAvgPut \/ LFUAvgGet \/ LFUAvgGet1 \/ LFUAvgPurge

SpecLFUAvg ==
  InitLFUAvg /\ [][NextLFUAvg]_vars

(***************************************************************************)
(* LFUAvgCache with frequencies beyond INT8_MAX: construction with         *)
(* capacity 1..LongMaxCapacity and maxAvgFreq = LongMaxAvgFreq, then put   *)
(* and get on LongNumKeys keys (no total above LongMaxTotalFreq); nothing  *)
(* runs once the process has faulted.                                      *)
(***************************************************************************)
LongKeys == 1..LongNumKeys

InitLFUAvgLong ==
  /\ lfuAvg \in {LFUAvgCache_new(n, LongMaxAvgFreq) : n \in 1..LongMaxCapacity}
  /\ lfuAvgLast = NoCall
  /\ IdleLRU /\ IdleLRUK /\ IdleLFU /\ IdleARC /\ IdleAux

LFUAvgLongPut ==
  \E k \in LongKeys, v \in Vals, ord \in Orders :
    \E c \in {LFUAvgCache_put(lfuAvg, k, v, ord)} :
      /\ ~lfuAvg.crashed
      /\ c.currentTotalFreq <= LongMaxTotalFreq
      /\ lfuAvg' = c
      /\ lfuAvgLast' = Call("put", k, v, FALSE, DefaultVal)
      /\ UNCHANGED <<lruVars, lrukVars, lfuVars, arcVars, auxVars>>

LFUAvgLongGet ==
  \E k \in LongKeys, ord \in Orders :
    \E r \in {LFUAvgCache_get(lfuAvg, k, DefaultVal, ord)} :
      /\ ~lfuAvg.crashed
      /\ r.cache.currentTotalFreq <= LongMaxTotalFreq
      /\ lfuAvg' = r.cache
      /\ lfuAvgLast' = Call("get", k, DefaultVal, r.hit, r.val)
      /\ UNCHANGED <<lruVars, lrukVars, lfuVars, arcVars, auxVars>>

NextLFUAvgLong ==
  LFUAvgLongPut \/ LFUAvgLongGet

SpecLFUAvgLong ==
  InitLFUAvgLong /\ [][NextLFUAvgLong]_vars

(***************************************************************************)
(* ARCCache: construction with a capacity and a transform threshold, then  *)
(* put and get in any order by one thread (no access count above           *)
(* MaxCount).                                                              *)
(***************************************************************************)
InitARC ==
  /\ arc \in {ARCCache_new(n, t) : n \in 0..ArcMaxCapacity, t \in 1..MaxThreshold}
  /\ arcLast = ArcCall(arc, "none", DefaultKey, DefaultVal, FALSE, DefaultVal)
  /\ IdleLRU /\ IdleLRUK /\ IdleLFU /\ IdleLFUAvg /\ IdleAux

ARCCountBounded(c) ==
  /\ \A x \in DOMAIN c.lruCache.mainCache : c.lruCache.mainCache[x].count <= MaxCount
  /\ \A x \in DOMAIN c.lfuCache.mainCache : c.lfuCache.mainCache[x].count <= MaxCount

ARCPut ==
  \E k \in Keys, v \in Vals :
    \E c \in {ARCCache_put(arc, k, v)} :
    /\ ARCCountBounded(c)
    /\ arc' = c
    /\ arcLast' = ArcCall(arc, "put", k, v, FALSE, DefaultVal)
    /\ UNCHANGED <<lruVars, lrukVars, lfuVars, lfuAvgVars, auxVars>>

ARCGet ==
  \E k \in Keys :
    \E r \in {ARCCache_get(arc, k, DefaultVal)} :
    /\ ARCCountBounded(r.cache)
    /\ arc' = r.cache
    /\ arcLast' = ArcCall(arc, "get", k, DefaultVal, r.hit, r.val)
    /\ UNCHANGED <<lruVars, lrukVars, lfuVars, lfuAvgVars, auxVars>>

\* get(key); when it throws, the returned value is none (DefaultVal here).
ARCGet1 ==
  \E k \in Keys, u \in Indeterminate :
    \E r \in {ARCCache_get1(arc, k, u)} :
    /\ ARCCountBounded(r.cache)
    /\ arc' = r.cache
    /\ arcLast' = [ArcCall(arc, "get1", k, DefaultVal, r.hit,
                           IF r.threw THEN DefaultVal ELSE r.val)
                     EXCEPT !.threw = r.threw]
    /\ UNCHANGED <<lruVars, lrukVars, lfuVars, lfuAvgVars, auxVars>>

NextARC ==
  ARCPut \/ ARCGet \/ ARCGet1

SpecARC ==
  InitARC /\ [][NextARC]_vars

(***************************************************************************)
(* ARCCache of capacity WideCapacity and threshold 1, then put and get in  *)
(* any order by one thread, with one value (no access count above          *)
(* WideMaxCount, no ghost list longer than WideMaxGhosts).  Each half      *)
(* starts with room for WideCapacity keys, so a ghost hit can evict from a *)
(* half that holds several keys.                                           *)
(***************************************************************************)
InitARCWide ==
  /\ arc = ARCCache_new(WideCapacity, 1)
  /\ arcLast = ArcCall(arc, "none", DefaultKey, DefaultVal, FALSE, DefaultVal)
  /\ IdleLRU /\ IdleLRUK /\ IdleLFU /\ IdleLFUAvg /\ IdleAux

ARCWideCountBounded(c) ==
  /\ \A x \in DOMAIN c.lruCache.mainCache : c.lruCache.mainCache[x].count <= WideMaxCount
  /\ \A x \in DOMAIN c.lfuCache.mainCache : c.lfuCache.mainCache[x].count <= WideMaxCount
  /\ Len(c.lruCache.ghostList) <= WideMaxGhosts
  /\ Len(c.lfuCache.ghostList) <= WideMaxGhosts

ARCWidePut ==
  \E k \in Keys :
    \E c \in {ARCCache_put(arc, k, 1)} :
    /\ ARCWideCountBounded(c)
    /\ arc' = c
    /\ arcLast' = ArcCall(arc, "put", k, 1, FALSE, DefaultVal)
    /\ UNCHANGED <<lruVars, lrukVars, lfuVars, lfuAvgVars, auxVars>>

ARCWideGet ==
  \E k \in Keys :
    \E r \in {ARCCache_get(arc, k, DefaultVal)} :
    /\ ARCWideCountBounded(r.cache)
    /\ arc' = r.cache
    /\ arcLast' = ArcCall(arc, "get", k, DefaultVal, r.hit, r.val)
    /\ UNCHANGED <<lruVars, lrukVars, lfuVars, lfuAvgVars, auxVars>>

NextARCWide ==
  ARCWidePut \/ ARCWideGet

SpecARCWide ==
  InitARCWide /\ [][NextARCWide]_vars

(***************************************************************************)
(* LRUHashCache / LFUHashCache: construction with a declared capacity in   *)
(* 0..MaxHashCapacity and 1..MaxSlices shards, then put and get (and purge *)
(* of LFUHashCache) in any order.  hashKind is the class under test; the   *)
(* other wrapper stays as constructed.  shards is an observation: one      *)
(* independent inner cache of capacity ceil(C/N) per index, each given     *)
(* exactly the calls whose key hashes to its index.                        *)
(***************************************************************************)
\* The least m with m * n >= c.
CeilDiv(c, n) ==
  CHOOSE m \in 0..c : m * n >= c /\ \A j \in 0..(m - 1) : j * n < c

InitHash ==
  /\ IdleLRU /\ IdleLRUK /\ IdleLFU /\ IdleLFUAvg /\ IdleARC /\ IdleConc
  /\ hashKind \in {"LRUHashCache", "LFUHashCache"}
  /\ \E c \in 0..MaxHashCapacity, n \in 1..MaxSlices :
       /\ lruHash = IF hashKind = "LRUHashCache" THEN LRUHashCache_new(c, n)
                    ELSE LRUHashCache_new(0, 1)
       /\ lfuHash = IF hashKind = "LFUHashCache"
                    THEN LFUHashCache_new(c, n, HashMaxAvgFreq)
                    ELSE LFUHashCache_new(0, 1, HashMaxAvgFreq)
       /\ shards = [i \in 0..(n - 1) |->
                      IF hashKind = "LRUHashCache" THEN LRUCache_new(CeilDiv(c, n))
                      ELSE LFUAvgCache_new(CeilDiv(c, n), HashMaxAvgFreq)]
  /\ hashLast = NoHashCall

\* No shard of the LFUHashCache (nor its independent counterpart) has
\* faulted, and the counters stay within the exploration bounds.
LFUHashAlive ==
  /\ \A i \in 1..Len(lfuHash.slices) : ~lfuHash.slices[i].crashed
  /\ hashKind = "LFUHashCache" => \A i \in DOMAIN shards : ~shards[i].crashed

\* The frequency counters of inner cache c are within the exploration bounds.
LFUHashBounded(c) ==
  /\ \A x \in DOMAIN c.cacheMap : c.cacheMap[x].freq <= HashMaxFreq
  /\ c.currentTotalFreq <= HashMaxTotalFreq

LRUHashPut ==
  /\ hashKind = "LRUHashCache"
  /\ \E k \in Keys, v \in Vals :
       /\ lruHash' = LRUHashCache_put(lruHash, k, v)
       /\ shards' = [shards EXCEPT ![Hash(k) % lruHash.sliceNum] = LRUCache_put(@, k, v)]
       /\ hashLast' = HashCall("put", k, v, FALSE, DefaultVal,
                               LRUHashCache_sliceIndex(lruHash, k), FALSE, DefaultVal)
  /\ UNCHANGED <<lruVars, lrukVars, lfuVars, lfuAvgVars, arcVars, concVars,
                 hashKind, lfuHash>>

LRUHashGet ==
  /\ hashKind = "LRUHashCache"
  /\ \E k \in Keys :
       \E r \in {LRUHashCache_get(lruHash, k, DefaultVal)},
          ref \in {LRUCache_get(shards[Hash(k) % lruHash.sliceNum], k, DefaultVal)} :
         /\ lruHash' = r.cache
         /\ shards' = [shards EXCEPT ![Hash(k) % lruHash.sliceNum] = ref.cache]
         /\ hashLast' = HashCall("get", k, DefaultVal, r.hit, r.val,
                                 LRUHashCache_sliceIndex(lruHash, k), ref.hit, ref.val)
  /\ UNCHANGED <<lruVars, lrukVars, lfuVars, lfuAvgVars, arcVars, concVars,
                 hashKind, lfuHash>>

\* The index LFUHashCache::put / get use for key k: NoSlice when the index
\* computed is not below the size of the vector.
LFUHashSliceUsed(c, k) ==
  IF LFUHashCache_getSliceIndex(c, k) < Len(c.slices)
  THEN LFUHashCache_getSliceIndex(c, k)
  ELSE NoSlice

LFUHashPut ==
  /\ hashKind = "LFUHashCache"
  /\ LFUHashAlive
  /\ \E k \in Keys, v \in Vals, ord \in Orders :
       \E c \in {LFUHashCache_put(lfuHash, k, v, ord)} :
         /\ LFUHashBounded(LFUAvgCache_put(shards[Hash(k) % lfuHash.sliceNum], k, v, ord))
         /\ lfuHash' = c
         /\ shards' = [shards EXCEPT ![Hash(k) % lfuHash.sliceNum] =
                                      LFUAvgCache_put(@, k, v, ord)]
         /\ hashLast' = HashCall("put", k, v, FALSE, DefaultVal,
                                 LFUHashSliceUsed(lfuHash, k), FALSE, DefaultVal)
  /\ UNCHANGED <<lruVars, lrukVars, lfuVars, lfuAvgVars, arcVars, concVars,
                 hashKind, lruHash>>

LFUHashGet ==
  /\ hashKind = "LFUHashCache"
  /\ LFUHashAlive
  /\ \E k \in Keys, ord \in Orders :
       \E r \in {LFUHashCache_get(lfuHash, k, DefaultVal, ord)},
          ref \in {LFUAvgCache_get(shards[Hash(k) % lfuHash.sliceNum], k,
                                   DefaultVal, ord)} :
         /\ LFUHashBounded(ref.cache)
         /\ lfuHash' = r.cache
         /\ shards' = [shards EXCEPT ![Hash(k) % lfuHash.sliceNum] = ref.cache]
         /\ hashLast' = HashCall("get", k, DefaultVal, r.hit, r.val,
                                 LFUHashSliceUsed(lfuHash, k), ref.hit, ref.val)
  /\ UNCHANGED <<lruVars, lrukVars, lfuVars, lfuAvgVars, arcVars, concVars,
                 hashKind, lruHash>>

LFUHashPurge ==
  /\ hashKind = "LFUHashCache"
  /\ LFUHashAlive
  /\ lfuHash' = LFUHashCache_purge(lfuHash)
  /\ shards' = [i \in DOMAIN shards |-> LFUAvgCache_purge(shards[i])]
  /\ hashLast' = HashCall("purge", DefaultKey, DefaultVal, FALSE, DefaultVal,
                          NoSlice, FALSE, DefaultVal)
  /\ UNCHANGED <<lruVars, lrukVars, lfuVars, lfuAvgVars, arcVars, concVars,
                 hashKind, lruHash>>

NextHash ==
  LRUHashPut \/ LRUHashGet \/ LFUHashPut \/ LFUHashGet \/ LFUHashPurge

SpecHash ==
  InitHash /\ [][NextHash]_vars

(***************************************************************************)
(* C17: in the sharded caches, as long as only put and get have been       *)
(* called, every call uses the shard of index hash(key) mod N, no key is   *)
(* resident in two shards, and the shards and the results are those of N   *)
(* independent inner caches of capacity ceil(C/N), each given the calls    *)
(* whose key hashes to its index.                                          *)
(***************************************************************************)
\* The wrapper under test and the keys resident in its shard of index i.
HashCache ==
  IF hashKind = "LRUHashCache" THEN lruHash ELSE lfuHash

ShardKeys(i) ==
  IF hashKind = "LRUHashCache"
  THEN DOMAIN lruHash.slices[i + 1].nodeMap
  ELSE DOMAIN lfuHash.slices[i + 1].cacheMap

\* purge has not been called.
OnlyPutGet ==
  Len(HashCache.slices) = HashCache.sliceNum

C17_ShardsAreIndependentCaches ==
  (hashKind # "none" /\ OnlyPutGet) =>
    /\ hashLast.op \in {"put", "get"} =>
         /\ hashLast.slice = Hash(hashLast.key) % HashCache.sliceNum
         /\ hashLast.hit = hashLast.refHit
         /\ hashLast.out = hashLast.refOut
    /\ \A i, j \in 0..(HashCache.sliceNum - 1) :
         i # j => ShardKeys(i) \cap ShardKeys(j) = {}
    /\ \A i \in 0..(HashCache.sliceNum - 1) : HashCache.slices[i + 1] = shards[i]

\* Two shards, each holding a key, and a get that hit in the second one.
C17_Witness ==
  /\ hashKind # "none" /\ OnlyPutGet
  /\ HashCache.sliceNum = 2
  /\ ShardKeys(0) # {} /\ ShardKeys(1) # {}
  /\ hashLast.op = "get" /\ hashLast.hit /\ hashLast.slice = 1

(***************************************************************************)
(* C18: in a sharded cache of declared capacity C with N >= 1 shards, the  *)
(* number of resident keys summed over the shards never exceeds C.         *)
(***************************************************************************)
\* The number of keys resident in the shards of index 0..(n - 1).
RECURSIVE ResidentInShards(_)
ResidentInShards(n) ==
  IF n = 0 THEN 0
  ELSE Cardinality(ShardKeys(n - 1)) + ResidentInShards(n - 1)

ResidentTotal ==
  ResidentInShards(Len(HashCache.slices))

C18_ShardedWithinDeclaredCapacity ==
  hashKind # "none" => ResidentTotal <= HashCache.capacity

(***************************************************************************)
(* C19: in LFUHashCache, after any sequence of put, get and purge, the     *)
(* index computed for any key is below the number of shards held, and with *)
(* capacity >= 1 a put(k, v) followed by get(k, &out) returns true with    *)
(* out = v.                                                                *)
(***************************************************************************)
\* get(key, &out) right after put(key, val) on wrapper c.
LFUHashCache_putThenGet(c, key, val, ord) ==
  LFUHashCache_get(LFUHashCache_put(c, key, val, ord), key, DefaultVal, ord)

\* No shard of wrapper c has faulted.
LFUHashCache_alive(c) ==
  \A i \in 1..Len(c.slices) : ~c.slices[i].crashed

C19_IndexInRange ==
  \A k \in Keys : LFUHashCache_getSliceIndex(lfuHash, k) < Len(lfuHash.slices)

C19_PutThenGetHits ==
  \A k \in Keys, v \in Vals, ord \in Orders :
    (/\ lfuHash.capacity >= 1
     /\ LFUHashCache_alive(LFUHashCache_putThenGet(lfuHash, k, v, ord).cache))
      => /\ LFUHashCache_putThenGet(lfuHash, k, v, ord).hit
         /\ LFUHashCache_putThenGet(lfuHash, k, v, ord).val = v

C19_LFUHashIndexInRange ==
  (hashKind = "LFUHashCache" /\ LFUHashAlive) =>
    /\ C19_IndexInRange
    /\ C19_PutThenGetHits

(***************************************************************************)
(* Properties.                                                             *)
(***************************************************************************)

\* C1: in LRUCache with capacity N >= 1, a put of a non-resident key while
\* N keys are resident evicts exactly one key, the resident key whose latest
\* touch (put or get hit) is the oldest, and makes the new key resident; a
\* get hit on a key makes it the most recent, so that with two or more
\* residents the next such put does not evict it.
C1_LRUEvictsOldestTouched ==
  [][/\ (/\ lruLast'.op = "put"
         /\ lru.capacity >= 1
         /\ lruLast'.key \notin DOMAIN lru.nodeMap
         /\ Cardinality(DOMAIN lru.nodeMap) = lru.capacity)
        => /\ FirstIn(lruTouch, DOMAIN lru.nodeMap) \in DOMAIN lru.nodeMap
           /\ DOMAIN lru'.nodeMap =
                ((DOMAIN lru.nodeMap) \ {FirstIn(lruTouch, DOMAIN lru.nodeMap)})
                  \cup {lruLast'.key}
     /\ (/\ lruLast'.op = "get"
         /\ lruLast'.hit
         /\ Cardinality(DOMAIN lru'.nodeMap) >= 2)
        => /\ lru'.list[Len(lru'.list)] = lruLast'.key
           /\ \A n \in Keys \ DOMAIN lru'.nodeMap :
                lruLast'.key \in DOMAIN LRUCache_put(lru', n, 1).nodeMap]_vars

\* A put has just evicted a key from a full cache of capacity >= 2 and linked
\* the new key at the tail.
C1_Witness ==
  /\ lruLast.op = "put"
  /\ lru.capacity >= 2
  /\ Len(lru.list) = lru.capacity
  /\ lru.list[Len(lru.list)] = lruLast.key
  /\ \E i \in 1..Len(lruTouch) : lruTouch[i] \notin DOMAIN lru.nodeMap

LRUPutThenGet ==
  lru.capacity >= 1 =>
    \A k \in Keys, v1 \in Vals, v2 \in Vals :
      LET s1 == LRUCache_put(lru, k, v1)
          g1 == LRUCache_get(s1, k, DefaultVal)
          g2 == LRUCache_get(LRUCache_put(s1, k, v2), k, DefaultVal)
      IN g1.hit /\ g1.val = v1 /\ g2.hit /\ g2.val = v2

LFUPutThenGet ==
  lfu.capacity >= 1 =>
    \A k \in Keys, v1 \in Vals, v2 \in Vals :
      LET s1 == LFUCache_put(lfu, k, v1)
          g1 == LFUCache_get(s1, k, DefaultVal)
          g2 == LFUCache_get(LFUCache_put(s1, k, v2), k, DefaultVal)
      IN g1.hit /\ g1.val = v1 /\ g2.hit /\ g2.val = v2

LFUAvgPutThenGet ==
  (lfuAvg.capacity >= 1 /\ ~lfuAvg.crashed) =>
    \A k \in Keys, v1 \in Vals, v2 \in Vals, o1 \in Orders, o2 \in Orders :
      LET s1 == LFUAvgCache_put(lfuAvg, k, v1, o1)
          g1 == LFUAvgCache_get(s1, k, DefaultVal, o2)
          s2 == LFUAvgCache_put(s1, k, v2, o2)
          g2 == LFUAvgCache_get(s2, k, DefaultVal, o1)
      IN /\ ~s1.crashed /\ g1.hit /\ g1.val = v1
         /\ ~s2.crashed /\ g2.hit /\ g2.val = v2

\* C2: for LRUCache, LFUCache and LFUAvgCache with capacity >= 1, from every
\* reachable state put(k,v) immediately followed by get(k,&out) returns true
\* with out = v, and put(k,v1); put(k,v2); get(k) yields v2.
C2_PutThenGet ==
  LRUPutThenGet /\ LFUPutThenGet /\ LFUAvgPutThenGet

\* C3: in LFUCache with capacity N >= 1 the number of resident keys never
\* exceeds N.
C3_LFUWithinCapacity ==
  lfu.capacity >= 1 => Cardinality(DOMAIN lfu.cacheMap) <= lfu.capacity

LFUMinFreqKeys(c) ==
  {x \in DOMAIN c.cacheMap :
     \A y \in DOMAIN c.cacheMap : c.cacheMap[x].freq <= c.cacheMap[y].freq}

\* C4: in LFUCache, whenever a put of a new key evicts a resident key, the
\* evicted key has the minimum frequency among all resident keys and, among
\* the keys of that frequency, is the one that reached it earliest.
C4_LFUVictimIsOldestLeastFrequent ==
  [][(lfuLast'.op = "put")
     => \A x \in (DOMAIN lfu.cacheMap) \ (DOMAIN lfu'.cacheMap) :
          /\ x \in LFUMinFreqKeys(lfu)
          /\ x = FirstIn(lfuReach, LFUMinFreqKeys(lfu))]_vars

\* The scenario LRUKCache(cap=2, hist=4, K=2), key 1, value "a" (value 1).
ScenarioLRUK ==
  lruk.main.capacity = 2 /\ lruk.histList.capacity = 4 /\ lruk.k = 2

PutA == Call("put", 1, 1, FALSE, DefaultVal)
GetA == Call("get", 1, DefaultVal, FALSE, DefaultVal)

\* C5 as claimed: starting empty, after put(1,"a") the first get(1) is a miss;
\* after a second put(1,"a") the next get(1) hits and returns "a".
C5_FirstGetMisses ==
  /\ (ScenarioLRUK /\ lrukLog = <<PutA, GetA>>) => ~lrukLast.hit
  /\ (ScenarioLRUK /\ lrukLog = <<PutA, GetA, PutA, GetA>>)
       => (lrukLast.hit /\ lrukLast.out = 1)

\* C5 as amended: starting empty, after put(1,"a") the first get(1) already
\* hits and returns "a" (it is the key's second access and promotes the
\* pending value); after a second put(1,"a") the next get(1) hits and
\* returns "a".
C5_FirstGetPromotes ==
  /\ (ScenarioLRUK /\ lrukLog = <<PutA, GetA>>)
       => (lrukLast.hit /\ lrukLast.out = 1 /\ 1 \in DOMAIN lruk.main.nodeMap)
  /\ (ScenarioLRUK /\ lrukLog = <<PutA, GetA, PutA, GetA>>)
       => (lrukLast.hit /\ lrukLast.out = 1)

C5_Witness ==
  /\ ScenarioLRUK
  /\ lrukLog = <<PutA, GetA, PutA, GetA>>
  /\ lrukLast = Call("get", 1, DefaultVal, TRUE, 1)

\* C6: in LRUKCache with threshold K >= 1 a key is resident in the main cache
\* only if it has been accessed (put or get of that key) at least K times
\* since construction.
C6_LRUKAdmissionNeedsKAccesses ==
  \A k \in DOMAIN lruk.main.nodeMap : lrukAcc[k] >= lruk.k

\* A key sits in main after exactly K = MaxK accesses, next to a key that is
\* still in history with fewer.
C6_Witness ==
  /\ lruk.k = MaxK
  /\ \E k \in DOMAIN lruk.main.nodeMap : lrukAcc[k] = lruk.k
  /\ \E k \in DOMAIN lruk.histList.nodeMap :
       k \notin DOMAIN lruk.main.nodeMap /\ lrukAcc[k] >= 1

\* C7: in ARCCache constructed with capacity C, after construction and after
\* every get/put, the capacity of the recency half plus the capacity of the
\* frequency half equals C.
C7_ARCCapacitySumIsC ==
  arc.lruCache.capacity + arc.lfuCache.capacity = arc.capacity

ARCResidentKeys(c) ==
  (DOMAIN c.lruCache.mainCache) \cup (DOMAIN c.lfuCache.mainCache)

\* C8: in ARCCache with declared capacity C the number of distinct resident
\* keys (keys in L's or F's resident map) never exceeds C.
C8_ARCResidentWithinCapacity ==
  Cardinality(ARCResidentKeys(arc)) <= arc.capacity

\* C9: in ARCCache with declared capacity C >= 1, from every reachable state,
\* put(k,v) immediately followed by get(k,&out) returns true with out = v,
\* and put(k,v1); put(k,v2); get(k,&out) gives out = v2.
C9_ARCPutThenGet ==
  arc.capacity >= 1 =>
    \A k \in Keys, v1 \in Vals, v2 \in Vals :
      LET s1 == ARCCache_put(arc, k, v1)
          g1 == ARCCache_get(s1, k, DefaultVal)
          g2 == ARCCache_get(ARCCache_put(s1, k, v2), k, DefaultVal)
      IN g1.hit /\ g1.val = v1 /\ g2.hit /\ g2.val = v2

C11_Get1MissReturnsDefault ==
  /\ (lruLast.op = "get1" /\ ~lruLast.hit) => lruLast.out = DefaultVal
  /\ (lrukLast.op = "get1" /\ ~lrukLast.hit) => lrukLast.out = DefaultVal
  /\ (lfuLast.op = "get1" /\ ~lfuLast.hit) => lfuLast.out = DefaultVal
  /\ (lfuAvgLast.op = "get1" /\ ~lfuAvgLast.hit) => lfuAvgLast.out = DefaultVal
  /\ (arcLast.op = "get1" /\ ~arcLast.hit)
       => (arcLast.out = DefaultVal /\ ~arcLast.threw)

IsGet(c) ==
  c.op \in {"get", "get1"}

LRUZeroCapacity ==
  lru.capacity = 0 => (DOMAIN lru.nodeMap = {} /\ (IsGet(lruLast) => ~lruLast.hit))

LRUKZeroCapacity ==
  lruk.main.capacity = 0
    => (DOMAIN lruk.main.nodeMap = {} /\ (IsGet(lrukLast) => ~lrukLast.hit))

LFUZeroCapacity ==
  lfu.capacity = 0 => (DOMAIN lfu.cacheMap = {} /\ (IsGet(lfuLast) => ~lfuLast.hit))

LFUAvgZeroCapacity ==
  lfuAvg.capacity = 0
    => (DOMAIN lfuAvg.cacheMap = {} /\ (IsGet(lfuAvgLast) => ~lfuAvgLast.hit))

ARCZeroCapacity ==
  arc.capacity = 0
    => (ARCResidentKeys(arc) = {} /\ (IsGet(arcLast) => ~arcLast.hit))

\* C12: for every policy constructed with capacity 0 (for LRU-K: main
\* capacity 0, any history capacity and K) no key is ever resident and every
\* get misses.
C12_ZeroCapacityHoldsNothing ==
  /\ LRUZeroCapacity
  /\ LRUKZeroCapacity
  /\ LFUZeroCapacity
  /\ LFUAvgZeroCapacity
  /\ ARCZeroCapacity

(***************************************************************************)
(* C21: in LRUCache with capacity N >= 1, after every put, get and remove  *)
(* the number of resident keys is <= N and the keys of the key->node map   *)
(* are exactly the keys linked between the sentinels, each once; after     *)
(* remove(k) a get(k) misses and every other resident key keeps its value  *)
(* and its place in the list.                                              *)
(***************************************************************************)
\* The keys linked between dummyHead_ and dummyTail_ of cache c.
LRULinked(c) ==
  {c.list[i] : i \in 1..Len(c.list)}

LRUMapIsList(c) ==
  /\ Cardinality(DOMAIN c.nodeMap) <= c.capacity
  /\ LRULinked(c) = DOMAIN c.nodeMap
  /\ Len(c.list) = Cardinality(DOMAIN c.nodeMap)

C21_LRUMapIsListAndRemove ==
  [][lru.capacity >= 1 =>
       /\ LRUMapIsList(lru')
       /\ lruLast'.op = "remove" =>
            /\ ~LRUCache_get(lru', lruLast'.key, DefaultVal).hit
            /\ DOMAIN lru'.nodeMap = (DOMAIN lru.nodeMap) \ {lruLast'.key}
            /\ \A x \in DOMAIN lru'.nodeMap : lru'.nodeMap[x] = lru.nodeMap[x]
            /\ lru'.list = Unlink(lru.list, lruLast'.key)]_vars

\* remove has taken the older of the two keys ever put into a cache of
\* capacity 2; the other key is still resident.
C21_Witness ==
  /\ lru.capacity = 2
  /\ lruLast.op = "remove"
  /\ Len(lruTouch) = 2
  /\ lruLast.key = lruTouch[1]
  /\ DOMAIN lru.nodeMap = {lruTouch[2]}
  /\ lru.list = <<lruTouch[2]>>

(***************************************************************************)
(* C22: in LFUAvgCache with capacity >= 1, a put of a new key into a full  *)
(* cache completes without error: the list at the tracked minFreq exists   *)
(* and is non-empty when the eviction runs, exactly the head of that list  *)
(* is evicted, and the resident count stays <= capacity.                   *)
(***************************************************************************)
\* The step is a put of a non-resident key into a full cache of capacity >= 1.
LFUAvgPutIntoFull ==
  /\ lfuAvgLast'.op = "put"
  /\ lfuAvg.capacity >= 1
  /\ lfuAvgLast'.key \notin DOMAIN lfuAvg.cacheMap
  /\ Cardinality(DOMAIN lfuAvg.cacheMap) >= lfuAvg.capacity

\* The put evicted the head of the list at the tracked minFreq and nothing else.
LFUAvgEvictedMinFreqHead ==
  /\ lfuAvg.minFreq \in DOMAIN lfuAvg.freqListMap
  /\ lfuAvg.freqListMap[lfuAvg.minFreq] # <<>>
  /\ DOMAIN lfuAvg'.cacheMap =
       ((DOMAIN lfuAvg.cacheMap) \ {Head(lfuAvg.freqListMap[lfuAvg.minFreq])})
         \cup {lfuAvgLast'.key}
  /\ Cardinality(DOMAIN lfuAvg'.cacheMap) <= lfuAvg.capacity

C22_LFUAvgEvictionNeverFails ==
  [][LFUAvgPutIntoFull => (~lfuAvg'.crashed /\ LFUAvgEvictedMinFreqHead)]_vars

(***************************************************************************)
(* C23: in LFUCache and LFUAvgCache, after every public operation that     *)
(* returns with at least one resident key, the tracked minFreq is the      *)
(* smallest frequency that has a non-empty list (the minimum freq over the *)
(* resident nodes), and every node on the list of frequency f has freq f.  *)
(***************************************************************************)
\* The frequencies of cache c that have a non-empty list.
UsedFreqs(c) ==
  {f \in DOMAIN c.freqListMap : c.freqListMap[f] # <<>>}

MinFreqIsSmallestUsed(c) ==
  /\ c.minFreq \in UsedFreqs(c)
  /\ \A f \in UsedFreqs(c) : c.minFreq <= f
  /\ \A x \in DOMAIN c.cacheMap : c.minFreq <= c.cacheMap[x].freq

NodesOnOwnFreqList(c) ==
  /\ \A f \in DOMAIN c.freqListMap : \A i \in 1..Len(c.freqListMap[f]) :
       /\ c.freqListMap[f][i] \in DOMAIN c.cacheMap
       /\ c.cacheMap[c.freqListMap[f][i]].freq = f
  /\ \A x \in DOMAIN c.cacheMap :
       /\ c.cacheMap[x].freq \in DOMAIN c.freqListMap
       /\ \E i \in 1..Len(c.freqListMap[c.cacheMap[x].freq]) :
            c.freqListMap[c.cacheMap[x].freq][i] = x

C23_MinFreqTracked ==
  /\ DOMAIN lfu.cacheMap # {} =>
       (MinFreqIsSmallestUsed(lfu) /\ NodesOnOwnFreqList(lfu))
  /\ (DOMAIN lfuAvg.cacheMap # {} /\ ~lfuAvg.crashed) =>
       (MinFreqIsSmallestUsed(lfuAvg) /\ NodesOnOwnFreqList(lfuAvg))

(***************************************************************************)
(* C24: in LFUAvgCache, when after an admitted access (put of a new key,   *)
(* put of a resident key, get hit) the integer average totalFreq /         *)
(* residentCount exceeds maxAvg, an aging pass runs in that operation:     *)
(* every resident node's frequency becomes max(1, freq - maxAvg/2), every  *)
(* node lies on the list of its new frequency, no empty list remains and   *)
(* minFreq is the smallest resident frequency, whatever the magnitude of   *)
(* the frequencies; when the average does not exceed maxAvg no frequency   *)
(* other than the accessed key's changes.                                  *)
(***************************************************************************)
\* The step from c to d is an admitted access of key k that returned.
LFUAvgAdmitted(c, d, call) ==
  /\ ~d.crashed
  /\ \/ call.op = "put" /\ c.capacity # 0
     \/ call.op \in {"get", "get1"} /\ call.hit

\* The frequency of resident key x once the access of key k is counted.
LFUAvgFreqAfterAccess(c, x, k) ==
  IF x # k THEN c.cacheMap[x].freq
  ELSE IF k \in DOMAIN c.cacheMap THEN c.cacheMap[k].freq + 1
  ELSE 1

\* max(1, f - maxAvg/2).
LFUAvgAged(f, maxAvg) ==
  IF f - (maxAvg \div 2) < 1 THEN 1 ELSE f - (maxAvg \div 2)

LFUAvgOverMax(d) ==
  d.currentTotalFreq \div Cardinality(DOMAIN d.cacheMap) > d.maxAvgFreq

LFUAvgAgingDone(c, d, k) ==
  /\ \A x \in DOMAIN d.cacheMap :
       d.cacheMap[x].freq = LFUAvgAged(LFUAvgFreqAfterAccess(c, x, k), c.maxAvgFreq)
  /\ NodesOnOwnFreqList(d)
  /\ \A f \in DOMAIN d.freqListMap : d.freqListMap[f] # <<>>
  /\ MinFreqIsSmallestUsed(d)

LFUAvgNoAging(c, d, k) ==
  \A x \in DOMAIN d.cacheMap :
    d.cacheMap[x].freq = LFUAvgFreqAfterAccess(c, x, k)

C24_LFUAvgAging ==
  [][LFUAvgAdmitted(lfuAvg, lfuAvg', lfuAvgLast') =>
       IF LFUAvgOverMax(lfuAvg')
       THEN LFUAvgAgingDone(lfuAvg, lfuAvg', lfuAvgLast'.key)
       ELSE LFUAvgNoAging(lfuAvg, lfuAvg', lfuAvgLast'.key)]_vars

(***************************************************************************)
(* C25: in LFUAvgCache, after every public operation (aging passes and     *)
(* evictions included) totalFreq is the sum of the freq fields of the      *)
(* resident nodes and avgFreq is totalFreq divided by the resident count   *)
(* by integer division (0 when empty).                                     *)
(***************************************************************************)
\* The sum of the freq fields of the nodes of cache c whose keys are in S.
RECURSIVE SumFreq(_, _)
SumFreq(c, S) ==
  IF S = {} THEN 0
  ELSE LET x == CHOOSE y \in S : TRUE
       IN c.cacheMap[x].freq + SumFreq(c, S \ {x})

TotalFreqIsSum(c) ==
  c.currentTotalFreq = SumFreq(c, DOMAIN c.cacheMap)

AvgFreqIsQuotient(c) ==
  c.currentAvgFreq = IF DOMAIN c.cacheMap = {} THEN 0
                     ELSE c.currentTotalFreq \div Cardinality(DOMAIN c.cacheMap)

C25_LFUAvgTotalIsSum ==
  ~lfuAvg.crashed => (TotalFreqIsSum(lfuAvg) /\ AvgFreqIsQuotient(lfuAvg))

(***************************************************************************)
(* C26: in ARCCache with threshold T, a get(k) that hits in L inserts or   *)
(* updates k in F, with the value read from L, if and only if L's access   *)
(* count of k after this get is >= T; the count is 1 when k is inserted    *)
(* into L, grows by 1 on every get hit in L and is not changed by a put    *)
(* overwriting k.  When F's capacity is > 0, k is resident in both L and F *)
(* right after such a get.                                                 *)
(***************************************************************************)
\* The step is a get (either form) / a put.
ArcStepIsGet ==
  arcLast'.op \in {"get", "get1"}

ArcStepIsPut ==
  arcLast'.op = "put"

\* L's access counts over the step; g is the cache once the ghost probe of
\* the call has run.
ARCCountRule(g, k) ==
  \A x \in DOMAIN arc'.lruCache.mainCache :
    arc'.lruCache.mainCache[x].count =
      IF x \notin DOMAIN g.lruCache.mainCache THEN 1
      ELSE IF x = k /\ ArcStepIsGet THEN g.lruCache.mainCache[x].count + 1
      ELSE g.lruCache.mainCache[x].count

\* A get of k that hits in L: F receives k exactly when the count reached T.
ARCTransformRule(g, k) ==
  IF arc'.lruCache.mainCache[k].count >= arc.transformThreshold
  THEN /\ arc'.lfuCache = ARCLFUCache_put(g.lfuCache, k, g.lruCache.mainCache[k].val)
       /\ g.lfuCache.capacity > 0 =>
            /\ k \in DOMAIN arc'.lfuCache.mainCache
            /\ arc'.lfuCache.mainCache[k].val = arc'.lruCache.mainCache[k].val
            /\ arc'.lfuCache.mainCache[k].val = arcLast'.out
  ELSE arc'.lfuCache = g.lfuCache

C26_ARCTransformAtThreshold ==
  [][(ArcStepIsGet \/ ArcStepIsPut) =>
       /\ ARCCountRule(ARCCache_checkGhost(arc, arcLast'.key), arcLast'.key)
       /\ (/\ ArcStepIsGet
           /\ arcLast'.key \in
                DOMAIN ARCCache_checkGhost(arc, arcLast'.key).lruCache.mainCache)
            => /\ arcLast'.hit
               /\ arcLast'.key \in DOMAIN arc'.lruCache.mainCache
               /\ ARCTransformRule(ARCCache_checkGhost(arc, arcLast'.key),
                                   arcLast'.key)]_vars

\* A get has just hit in L with the count reaching a threshold of 3, and the
\* key is now resident in both halves with the value read from L.
C26_Witness ==
  /\ arcLast.op = "get" /\ arcLast.hit
  /\ arc.transformThreshold = 3
  /\ arcLast.key \in DOMAIN arc.lruCache.mainCache
  /\ arc.lruCache.mainCache[arcLast.key].count = 3
  /\ arcLast.key \in DOMAIN arc.lfuCache.mainCache
  /\ arc.lfuCache.mainCache[arcLast.key].count = 1
  /\ arc.lfuCache.mainCache[arcLast.key].val = arcLast.out

(***************************************************************************)
(* C27: in each ARC half, after every single-threaded ARCCache operation,  *)
(* the ghost capacity equals the resident capacity, the resident keys are  *)
(* at most the resident capacity, the ghost keys at most the ghost         *)
(* capacity, and the ghost map holds exactly the keys linked on the ghost  *)
(* list; when the ghost list is full the oldest ghost is the one dropped.  *)
(***************************************************************************)
\* The keys linked on the ghost list of half h.
GhostLinked(h) ==
  {h.ghostList[i] : i \in 1..Len(h.ghostList)}

ARCHalfWithinCapacity(h) ==
  /\ h.ghostCapacity = h.capacity
  /\ Cardinality(DOMAIN h.mainCache) <= h.capacity
  /\ Cardinality(h.ghostCache) <= h.ghostCapacity

ARCGhostMapIsList(h) ==
  h.ghostCache = GhostLinked(h)

\* Over a step of half h to h2 on key k, the ghosts dropped (other than the
\* probed key k) are older than every ghost that stays; older(s, a, b) says
\* that a is linked on the older side of b in the ghost list s.
ARCOldestGhostDropped(h, h2, k, older(_, _, _)) ==
  \A a \in (h.ghostCache \ {k}) \ h2.ghostCache :
    \A b \in (h.ghostCache \ {k}) \cap h2.ghostCache :
      older(h.ghostList, a, b)

\* L links a new ghost right after ghostHead_: the older ghost is nearer the
\* end of the sequence.  F links it right before ghostTail_.
OlderInL(s, a, b) ==
  IndexOf(s, a) > IndexOf(s, b)

OlderInF(s, a, b) ==
  IndexOf(s, a) < IndexOf(s, b)

C27_ARCGhostLists ==
  [][/\ ARCHalfWithinCapacity(arc'.lruCache)
     /\ ARCHalfWithinCapacity(arc'.lfuCache)
     /\ ARCGhostMapIsList(arc'.lruCache)
     /\ ARCGhostMapIsList(arc'.lfuCache)
     /\ ARCOldestGhostDropped(arc.lruCache, arc'.lruCache, arcLast'.key, OlderInL)
     /\ ARCOldestGhostDropped(arc.lfuCache, arc'.lfuCache, arcLast'.key, OlderInF)]_vars

(***************************************************************************)
(* C28.  After every single-threaded get or put on an ARCCache, no key is  *)
(* in both the resident map and the ghost map of the same half (L          *)
(* resident and L ghost are disjoint, F resident and F ghost are           *)
(* disjoint), and when the operation found its key in a ghost list, the    *)
(* key is in neither half's ghost map or ghost list when it returns.       *)
(***************************************************************************)
ARCResidentGhostDisjoint(h) ==
  (DOMAIN h.mainCache) \cap h.ghostCache = {}

ARCGhostFree(c, k) ==
  /\ k \notin c.lruCache.ghostCache
  /\ k \notin c.lfuCache.ghostCache
  /\ k \notin GhostLinked(c.lruCache)
  /\ k \notin GhostLinked(c.lfuCache)

C28_ARCResidentXorGhost ==
  /\ ARCResidentGhostDisjoint(arc.lruCache)
  /\ ARCResidentGhostDisjoint(arc.lfuCache)
  /\ (arcLast.ghostL \/ arcLast.ghostF) => ARCGhostFree(arc, arcLast.key)

(***************************************************************************)
(* C29.  In LFUCache and LFUAvgCache a put on a resident key overwrites    *)
(* the value and counts as an access exactly like a get hit: the key's     *)
(* frequency grows by 1 and the key moves to the tail of the list of the   *)
(* new frequency (in LFUAvgCache the aging pass that an access can start   *)
(* then lowers the new frequency as it does after a get hit).              *)
(***************************************************************************)
PutOnResident(c, call) ==
  /\ call.op = "put"
  /\ c.capacity # 0
  /\ call.key \in DOMAIN c.cacheMap

PutCountedAsAccess(c, d, k, v, aged) ==
  /\ k \in DOMAIN d.cacheMap
  /\ d.cacheMap[k].val = v
  /\ d.cacheMap[k].freq = IF aged
                          THEN LFUAvgAged(c.cacheMap[k].freq + 1, c.maxAvgFreq)
                          ELSE c.cacheMap[k].freq + 1
  /\ d.cacheMap[k].freq \in DOMAIN d.freqListMap
  /\ \E i \in 1..Len(d.freqListMap[d.cacheMap[k].freq]) :
       /\ d.freqListMap[d.cacheMap[k].freq][i] = k
       /\ ~aged => i = Len(d.freqListMap[d.cacheMap[k].freq])

LFUPutCounts ==
  PutOnResident(lfu, lfuLast')
    => PutCountedAsAccess(lfu, lfu', lfuLast'.key, lfuLast'.val, FALSE)

LFUAvgPutCounts ==
  (PutOnResident(lfuAvg, lfuAvgLast') /\ ~lfuAvg'.crashed)
    => PutCountedAsAccess(lfuAvg, lfuAvg', lfuAvgLast'.key, lfuAvgLast'.val,
                          LFUAvgOverMax(lfuAvg'))

C29_PutOnResidentCounts ==
  [][LFUPutCounts /\ LFUAvgPutCounts]_vars

(***************************************************************************)
(* C30.  In LRUKCache with K >= 2 a key evicted from main is re-admitted   *)
(* only after fresh accesses, made after the eviction, reach the threshold *)
(* again: accesses made while the key was resident in main do not count,   *)
(* so when the key leaves main its history holds no access of it, and a    *)
(* single put of the key right after its eviction does not put it back in  *)
(* main.                                                                   *)
(***************************************************************************)
LRUKEvictedFromMain(c, d, k) ==
  /\ c.k >= 2
  /\ k \in DOMAIN c.main.nodeMap
  /\ k \notin DOMAIN d.main.nodeMap

LRUKHistCount(c, k) ==
  IF k \in DOMAIN c.histList.nodeMap THEN c.histList.nodeMap[k] ELSE 0

LRUKOnePutReadmits(c, k) ==
  \E v \in Vals : k \in DOMAIN LRUKCache_put(c, k, v).main.nodeMap

C30_LRUKReadmissionNeedsFreshAccesses ==
  [][\A k \in LrukKeys :
       LRUKEvictedFromMain(lruk, lruk', k)
         => /\ LRUKHistCount(lruk', k) = 0
            /\ ~LRUKOnePutReadmits(lruk', k)]_vars

(***************************************************************************)
(* C31.  After every single-threaded LRUKCache operation the keys holding  *)
(* a pending value (histValMap_) are a subset of the keys holding a        *)
(* history counter (histList_), so the number of pending values never      *)
(* exceeds the history capacity and a key whose counter was evicted from   *)
(* history has no pending value left to be promoted with.                  *)
(***************************************************************************)
LRUKPendingHaveCounter(c) ==
  DOMAIN c.histValMap \subseteq DOMAIN c.histList.nodeMap

LRUKPendingWithinHistCapacity(c) ==
  Cardinality(DOMAIN c.histValMap) <= c.histList.capacity

C31_LRUKPendingSubsetOfHistory ==
  /\ LRUKPendingHaveCounter(lruk)
  /\ LRUKPendingWithinHistCapacity(lruk)

(***************************************************************************)
(* C32.  In ARCCache the state in which L's capacity is 0 is absorbing: L  *)
(* then has no resident and no ghost entry, no later get or put makes an   *)
(* L-ghost hit, L's capacity is still 0 after every later operation, a put *)
(* of a key not resident in F stores nothing, and the resident key set of  *)
(* F no longer changes.                                                    *)
(***************************************************************************)
ARCLEmpty(h) ==
  /\ DOMAIN h.mainCache = {}
  /\ h.mainList = <<>>
  /\ h.ghostCache = {}

ARCPutStoresNothing(c, d, k) ==
  /\ k \notin DOMAIN d.lruCache.mainCache
  /\ k \notin DOMAIN d.lfuCache.mainCache
  /\ d.lruCache.mainCache = c.lruCache.mainCache
  /\ d.lfuCache.mainCache = c.lfuCache.mainCache

ARCLZeroStep ==
  /\ ARCLEmpty(arc.lruCache)
  /\ ~arcLast'.ghostL
  /\ arc'.lruCache.capacity = 0
  /\ ARCLEmpty(arc'.lruCache)
  /\ (ArcStepIsPut /\ arcLast'.key \notin DOMAIN arc.lfuCache.mainCache)
       => ARCPutStoresNothing(arc, arc', arcLast'.key)
  /\ DOMAIN arc'.lfuCache.mainCache = DOMAIN arc.lfuCache.mainCache

====
